---- MODULE Spec2Model ----
(***************************************************************************)
(* Model of the claude-codepro installer's reconciliation logic:           *)
(*   scripts/lib/files.py        merge_mcp_config, merge_yaml_config       *)
(*   installer/steps/config_files.py  merge_mcp_config, ConfigFilesStep    *)
(*   installer/steps/environment.py   key_is_set, add_env_key              *)
(*   scripts/install.py          main, download_lib_modules                *)
(*                                                                         *)
(* A file's bytes are modelled as a record: how it parses (k), its layout  *)
(* (fmt: "raw" as authored, "dump" as json.dump/yaml.dump lays it out) and *)
(* the parsed document (doc).  Two files are byte-identical iff the        *)
(* records are equal.                                                      *)
(***************************************************************************)
EXTENDS Integers, Sequences, FiniteSets, TLC

\* ------------------------------------------------------------------ bounds
MaxNames == 2
MaxCustom == 2
MaxLines == 2
MaxRuns == 2
MaxSteps == 4
MaxFailing == 2

VARIABLES
  mcpDisk,    \* the destination .mcp.json
  mcpRepo,    \* the .mcp.json the repository publishes
  mcpOut,     \* what the last operation did: [op, fetched, outcome, ui]
  yamlDisk,   \* the destination .claude/rules/config.yaml
  yamlRepo,   \* the config.yaml the repository publishes
  yamlOut,    \* what the last operation did: [op, fetched, yaml, outcome]
  envFs,      \* the key files of the project: path -> [exists, pieces]
  environ,    \* os.environ: key -> value ("" when unset)
  envOut,     \* what the last operation did: [op, key, value, path, ret, prompted]
  runFs,      \* the project directory install.py runs in: [lib, yaml, cipher, mcp]
  runRepo,    \* what the repository serves, and whether PyYAML can be had
  runPc,      \* the installer process: [pc, idx, pending, runs]
  runHist,    \* what earlier runs left: [prior, hasPrev, rerun, killedFrom]
  dlFs,       \* the destination of a download: [parent, dest]
  dlOut,      \* what the last download did: [op, cfg, ret]
  stFs,     \* the settings files of .claude: [template, settings]
  stOut,    \* what the last settings operation did
  ruFs,     \* the rules tree of .claude: [files, cdirs, sdirs]
  ruOut,    \* what the last run did: [op, skipped]
  orch,     \* the orchestrator: [phase, pc, checks, ran, completed, rolled, exit]
  depW,     \* the machine and the context DependenciesStep runs on
  depOut,   \* what the last call on DependenciesStep did
  mainSt    \* main() of install.py by phase: [pc, w, log]

mcpVars == <<mcpDisk, mcpRepo, mcpOut>>
yamlVars == <<yamlDisk, yamlRepo, yamlOut>>
envVars == <<envFs, environ, envOut>>
runVars == <<runFs, runRepo, runPc, runHist>>
dlVars == <<dlFs, dlOut>>
stVars == <<stFs, stOut>>
ruVars == <<ruFs, ruOut>>
orVars == <<orch>>
depVars == <<depW, depOut>>
phVars == <<mainSt>>
vars == <<mcpDisk, mcpRepo, mcpOut, yamlDisk, yamlRepo, yamlOut,
          envFs, environ, envOut, runFs, runRepo, runPc, runHist,
          dlFs, dlOut,
          stFs, stOut,
          ruFs, ruOut,
          orch,
          depW, depOut,
          mainSt>>

\* ------------------------------------------------------- JSON documents
EmptyFcn == [n \in {} |-> 0]

\* A JSON value: a mapping (m) or anything that is not a mapping (a names it).
ValMap(f) == [t |-> "map", a |-> "", m |-> f]
ValScalar(n) == [t |-> "scalar", a |-> n, m |-> EmptyFcn]

ServerNames == 1..MaxNames
\* Two opaque server definitions: equal names may carry different ones.
ServerDefs == {"d1", "d2"}

\* File contents.
Absent == [k |-> "absent", fmt |-> "none", doc |-> EmptyFcn]
Unparsable == [k |-> "bad", fmt |-> "raw", doc |-> EmptyFcn]
NonObject == [k |-> "nonobj", fmt |-> "raw", doc |-> EmptyFcn]
Obj(fmt, d) == [k |-> "obj", fmt |-> fmt, doc |-> d]

\* {**a, **b}: b's entries win, a's other entries are kept.
Overlay(a, b) ==
  [x \in (DOMAIN a) \cup (DOMAIN b) |-> IF x \in DOMAIN b THEN b[x] ELSE a[x]]

\* d.get(key, {})
GetOrEmpty(d, key) == IF key \in DOMAIN d THEN d[key] ELSE ValMap(EmptyFcn)

\* d[key] = v
Put(d, key, v) == [x \in (DOMAIN d) \cup {key} |-> IF x = key THEN v ELSE d[x]]

\* json.load succeeds
Parses(c) == c.k \in {"obj", "nonobj"}

\* ------------------------------------------- files.merge_mcp_config
\* The server key detection of files.py lines 119-127.
server_key(existing_config, new_config) ==
  IF "mcpServers" \in DOMAIN existing_config THEN "mcpServers"
  ELSE IF "servers" \in DOMAIN existing_config THEN "servers"
  ELSE IF "mcpServers" \in DOMAIN new_config THEN "mcpServers"
  ELSE IF "servers" \in DOMAIN new_config THEN "servers"
  ELSE "none"

\* Mutants of merged_servers: the fetched definition wins; nothing is added.
merged_servers_new_wins(existing_servers, new_servers) ==
  ValMap(Overlay(existing_servers.m, new_servers.m))

merged_servers_existing_only(existing_servers, new_servers) ==
  ValMap(existing_servers.m)

\* merged_servers = {**new_servers, **existing_servers}
merged_servers(existing_servers, new_servers) ==
  ValMap(Overlay(new_servers.m, existing_servers.m))

\* The body of the try block (lines 110-150): [raised, disk].
files_merge_try(dest, temp) ==
  IF ~Parses(dest) \/ ~Parses(temp) THEN [raised |-> TRUE, disk |-> dest]
  ELSE IF dest.k = "nonobj" \/ temp.k = "nonobj"
    THEN [raised |-> TRUE, disk |-> dest]
  ELSE
    LET existing_config == dest.doc
        new_config == temp.doc
        key == server_key(existing_config, new_config)
    IN IF key # "none"
       THEN LET existing_servers == GetOrEmpty(existing_config, key)
                new_servers == GetOrEmpty(new_config, key)
            IN IF existing_servers.t # "map" \/ new_servers.t # "map"
               THEN [raised |-> TRUE, disk |-> dest]
               ELSE [raised |-> FALSE,
                     disk |-> Obj("dump",
                        Put(Overlay(new_config, existing_config), key,
                            merged_servers(existing_servers, new_servers)))]
       ELSE [raised |-> FALSE,
             disk |-> Obj("dump", Overlay(new_config, existing_config))]

\* files.merge_mcp_config(repo_file, dest_file, config, temp_dir):
\* fetched is FALSE when download_file fails.
files_merge_mcp_config(dest, fetched, temp) ==
  IF ~fetched THEN [outcome |-> "download_failed", ret |-> FALSE, disk |-> dest]
  ELSE IF dest.k = "absent"
    THEN [outcome |-> "created", ret |-> TRUE, disk |-> temp]
  ELSE LET r == files_merge_try(dest, temp)
       IN IF r.raised
          THEN [outcome |-> "preserved", ret |-> FALSE, disk |-> dest]
          ELSE [outcome |-> "merged", ret |-> TRUE, disk |-> r.disk]

\* --------------------------------------- config_files.merge_mcp_config
\* config_files.merge_mcp_config(config_file, new_config): new_config is the
\* parsed manifest.  [raised, disk].
config_files_merge_mcp_config(dest, temp) ==
  LET existing0 == IF dest.k \in {"absent", "bad"} THEN EmptyFcn ELSE dest.doc
  IN IF dest.k = "nonobj" THEN [raised |-> TRUE, disk |-> dest]
     ELSE
       LET existing == IF "mcpServers" \in DOMAIN existing0 THEN existing0
                       ELSE Put(existing0, "mcpServers", ValMap(EmptyFcn))
       IN IF temp.k = "nonobj" THEN [raised |-> TRUE, disk |-> dest]
          ELSE
            LET new_servers == GetOrEmpty(temp.doc, "mcpServers")
            IN IF new_servers.t # "map" THEN [raised |-> TRUE, disk |-> dest]
               ELSE IF DOMAIN new_servers.m = {}
                 THEN [raised |-> FALSE, disk |-> Obj("dump", existing)]
               ELSE IF existing["mcpServers"].t # "map"
                 THEN [raised |-> TRUE, disk |-> dest]
               ELSE [raised |-> FALSE,
                     disk |-> Obj("dump",
                        Put(existing, "mcpServers",
                            ValMap(Overlay(new_servers.m,
                                           existing["mcpServers"].m))))]

\* The .mcp.json part of ConfigFilesStep.run (lines 151-168).
step_mcp(dest, fetched, temp, ui) ==
  IF ~fetched THEN [outcome |-> "skipped", disk |-> dest]
  ELSE IF ~Parses(temp)
    THEN [outcome |-> IF ui THEN "warned" ELSE "raised", disk |-> dest]
  ELSE LET r == config_files_merge_mcp_config(dest, temp)
       IN IF r.raised THEN [outcome |-> "raised", disk |-> dest]
          ELSE [outcome |-> "merged", disk |-> r.disk]

\* ------------------------------------------------------- manifest pools
\* Server collections: the first k names, all with the same definition (a
\* merge of two of them mixes the definitions).
UniformMaps == {[n \in 1..k |-> d] : k \in 0..MaxNames, d \in ServerDefs}

ServerVals == {ValMap(f) : f \in UniformMaps} \cup {ValScalar("null")}

DocsOver(mv, sv, ev) ==
  UNION {
    {Overlay(Overlay(m, s), e) :
        m \in (IF "mcpServers" \in K THEN {[x \in {"mcpServers"} |-> v] : v \in mv}
               ELSE {EmptyFcn}),
        s \in (IF "servers" \in K THEN {[x \in {"servers"} |-> v] : v \in sv}
               ELSE {EmptyFcn}),
        e \in (IF "extra" \in K THEN {[x \in {"extra"} |-> v] : v \in ev}
               ELSE {EmptyFcn})}
    : K \in SUBSET {"mcpServers", "servers", "extra"}}

\* What the repository may publish as .mcp.json.
Manifests ==
  {Obj("raw", d) :
     d \in DocsOver(ServerVals, {ValMap([n \in {1} |-> "d1"])}, {ValScalar("e1")})}
  \cup {Unparsable, NonObject}

\* What the project may hold as .mcp.json before the first run.
InitialMcp ==
  {Obj("raw", d) :
     d \in DocsOver(ServerVals, {ValMap([n \in {1} |-> "d2"])}, {ValScalar("e2")})}
  \cup {Unparsable, NonObject, Absent}

NoOp == [op |-> "none", fetched |-> FALSE, outcome |-> "none", ui |-> FALSE]

\* ------------------------------------------------- files.merge_yaml_config
\* A command definition of config.yaml: a mapping with an optional rules
\* mapping (standard rules std, optional custom sequence) and another field,
\* or null.
CmdMap(hasRules, std, hasCustom, custom, other) ==
  [t |-> "map", hasRules |-> hasRules, std |-> std,
   hasCustom |-> hasCustom, custom |-> custom, other |-> other]
CmdNull ==
  [t |-> "null", hasRules |-> FALSE, std |-> "", hasCustom |-> FALSE,
   custom |-> <<>>, other |-> ""]

\* A config.yaml document: an optional commands mapping and another key.
YDoc(hasCommands, commands, top) ==
  [hasCommands |-> hasCommands, commands |-> commands, top |-> top]
NoYDoc == YDoc(FALSE, EmptyFcn, "")

YAbsent == [k |-> "absent", fmt |-> "none", doc |-> NoYDoc]
YUnparsable == [k |-> "bad", fmt |-> "raw", doc |-> NoYDoc]
YNull == [k |-> "null", fmt |-> "raw", doc |-> NoYDoc]
YMap(fmt, d) == [k |-> "map", fmt |-> fmt, doc |-> d]

\* Mutant of old_custom: the user's custom rules are not read.
old_custom_dropped(existing_cmd) == <<>>

\* existing_config["commands"][cmd_name].get("rules", {}).get("custom", [])
old_custom(existing_cmd) ==
  IF existing_cmd.hasRules /\ existing_cmd.hasCustom THEN existing_cmd.custom
  ELSE <<>>

\* Lines 271-273: cmd_config["rules"]["custom"] = old_custom
with_custom(cmd_config, custom) ==
  [cmd_config EXCEPT !.hasRules = TRUE, !.hasCustom = TRUE, !.custom = custom]

\* Lines 258-277 for two parsed documents: [raised, doc].
yaml_merge_docs(new, existing) ==
  IF new.k = "null" THEN [raised |-> TRUE, doc |-> new.doc]
  ELSE IF ~new.doc.hasCommands THEN [raised |-> FALSE, doc |-> new.doc]
  ELSE IF existing.k = "null" THEN [raised |-> TRUE, doc |-> new.doc]
  ELSE IF ~existing.doc.hasCommands THEN [raised |-> FALSE, doc |-> new.doc]
  ELSE
    LET nc == new.doc.commands
        ec == existing.doc.commands
        both == (DOMAIN nc) \cap (DOMAIN ec)
    IN IF \E c \in both : ec[c].t = "null" \/ nc[c].t = "null"
       THEN [raised |-> TRUE, doc |-> new.doc]
       ELSE [raised |-> FALSE,
             doc |-> [new.doc EXCEPT !.commands =
                        [c \in DOMAIN nc |->
                           IF c \in both
                           THEN with_custom(nc[c], old_custom(ec[c]))
                           ELSE nc[c]]]]

\* files.merge_yaml_config(new_config_path, existing_config_path); yamlOk is
\* whether PyYAML can be imported, if need be after installing it.
merge_yaml_config(new, existing, yamlOk) ==
  IF ~yamlOk
  THEN [outcome |-> "copied", ret |-> TRUE, disk |-> new]
  ELSE IF new.k = "bad" \/ existing.k \in {"bad", "absent"}
  THEN [outcome |-> "failed", ret |-> FALSE, disk |-> existing]
  ELSE LET r == yaml_merge_docs(new, existing)
       IN IF r.raised
          THEN [outcome |-> "failed", ret |-> FALSE, disk |-> existing]
          ELSE [outcome |-> "merged", ret |-> TRUE, disk |-> YMap("dump", r.doc)]

\* install.py lines 225-237: config.yaml in the .claude download loop.
install_config_yaml(existing, fetched, new, yamlOk) ==
  IF existing.k # "absent"
  THEN IF fetched THEN merge_yaml_config(new, existing, yamlOk)
       ELSE [outcome |-> "download_failed", ret |-> FALSE, disk |-> existing]
  ELSE IF fetched THEN [outcome |-> "created", ret |-> TRUE, disk |-> new]
       ELSE [outcome |-> "download_failed", ret |-> FALSE, disk |-> existing]

\* ----------------------------------------------------------- config pools
CmdNames == {"plan", "implement"}

\* Custom rule sequences a user may have written: <<>>, <<1>>, <<1, 2>>, ...
UserCustoms == {[i \in 1..k |-> i] : k \in 0..MaxCustom}

RepoCmds ==
  {CmdNull, CmdMap(FALSE, "", FALSE, <<>>, "o1"),
   CmdMap(TRUE, "s1", FALSE, <<>>, "o1"),
   CmdMap(TRUE, "s1", TRUE, <<0>>, "o1")}

UserCmds ==
  {CmdNull, CmdMap(FALSE, "", FALSE, <<>>, "o2"),
   CmdMap(TRUE, "s2", FALSE, <<>>, "o2")}
  \cup {CmdMap(TRUE, "s2", TRUE, c, "o2") : c \in UserCustoms}

YDocsOver(cmds, top) ==
  {YDoc(TRUE, f, top) : f \in UNION {[S -> cmds] : S \in SUBSET CmdNames}}
  \cup {YDoc(FALSE, EmptyFcn, top)}

RepoYamls ==
  {YMap("raw", d) : d \in YDocsOver(RepoCmds, "t1")} \cup {YUnparsable, YNull}

InitialYamls ==
  {YMap("raw", d) : d \in YDocsOver(UserCmds, "t2")}
  \cup {YUnparsable, YNull, YAbsent}

NoYamlOp == [op |-> "none", fetched |-> FALSE, yaml |-> FALSE, outcome |-> "none"]

\* --------------------------------------------- installer/steps/environment
\* A key file is a text of tokens, each a key name, "=", a value character
\* or SP (a blank), held as content.split("\n"): the pieces between its
\* newlines.  The last piece is what follows the last newline (empty when
\* the text ends with one); the empty text is the single empty piece.
SP == " "

EnvFile(exists, pieces) == [exists |-> exists, pieces |-> pieces]
NoFile == EnvFile(FALSE, << <<>> >>)

\* f.write(line + "\n") on a file opened with "a"
append_line(pieces, line) ==
  [pieces EXCEPT ![Len(pieces)] = @ \o line] \o << <<>> >>

RECURSIVE lstrip(_)
lstrip(line) ==
  IF line # <<>> /\ Head(line) = SP THEN lstrip(Tail(line)) ELSE line

RECURSIVE rstrip(_)
rstrip(line) ==
  IF line # <<>> /\ line[Len(line)] = SP
  THEN rstrip(SubSeq(line, 1, Len(line) - 1)) ELSE line

\* line.strip()
strip(line) == rstrip(lstrip(line))

\* line.startswith(f"{key}=")
startswith_key(line, key) == Len(line) >= 2 /\ line[1] = key /\ line[2] = "="

\* key_exists_in_file(key, env_file)
key_exists_in_file(key, env_file) ==
  /\ env_file.exists
  /\ \E i \in 1..Len(env_file.pieces) :
        startswith_key(strip(env_file.pieces[i]), key)

\* key_is_set(key, env_file) with os.environ = env
key_is_set(key, env_file, env) ==
  IF key \in DOMAIN env /\ env[key] # "" THEN TRUE
  ELSE key_exists_in_file(key, env_file)

\* add_env_key(key, value, env_file): the file afterwards
add_env_key(key, value, env_file) ==
  IF key_exists_in_file(key, env_file) THEN env_file
  ELSE EnvFile(TRUE, append_line(env_file.pieces, <<key, "=">> \o value))

\* The keys EnvironmentStep.run asks key_is_set about, and its prompts.
CheckedKeys == {"MILVUS_TOKEN", "OPENAI_API_KEY", "EXA_API_KEY", "GEMINI_API_KEY"}
PromptNames ==
  {"MILVUS_TOKEN", "MILVUS_ADDRESS", "VECTOR_STORE_USERNAME",
   "VECTOR_STORE_PASSWORD", "OPENAI_API_KEY", "EXA_API_KEY", "GEMINI_API_KEY"}

\* The key whose absence triggers a prompt.
prompt_guard(name) ==
  IF name \in {"MILVUS_ADDRESS", "VECTOR_STORE_USERNAME", "VECTOR_STORE_PASSWORD"}
  THEN "MILVUS_TOKEN" ELSE name

\* The path EnvironmentStep.run uses (line 55).
step_env_path == ".env"

\* The prompts run issues (lines 84-151): for keys not set, when there is a UI.
prompts(env_file, env, ui) ==
  IF ui THEN {n \in PromptNames : ~key_is_set(prompt_guard(n), env_file, env)}
  ELSE {}

\* The add_env_key calls of lines 153-163, given the values entered.
upserts(val) ==
  << <<"MILVUS_TOKEN", val["MILVUS_TOKEN"]>>,
     <<"MILVUS_ADDRESS", val["MILVUS_ADDRESS"]>>,
     <<"VECTOR_STORE_URL", val["MILVUS_ADDRESS"]>>,
     <<"VECTOR_STORE_USERNAME", val["VECTOR_STORE_USERNAME"]>>,
     <<"VECTOR_STORE_PASSWORD", val["VECTOR_STORE_PASSWORD"]>>,
     <<"OPENAI_API_KEY", val["OPENAI_API_KEY"]>>,
     <<"EXA_API_KEY", val["EXA_API_KEY"]>>,
     <<"GEMINI_API_KEY", val["GEMINI_API_KEY"]>>,
     <<"USE_ASK_CIPHER", <<"true">> >>,
     <<"VECTOR_STORE_TYPE", <<"milvus">> >>,
     <<"FASTMCP_LOG_LEVEL", <<"ERROR">> >> >>

RECURSIVE add_all(_, _, _)
add_all(calls, i, env_file) ==
  IF i > Len(calls) THEN env_file
  ELSE add_all(calls, i + 1, add_env_key(calls[i][1], calls[i][2], env_file))

\* The run without its early return.
environment_run_unguarded(fs, env, skip_env, non_interactive, ui, answers) ==
  LET env_file == fs[step_env_path]
      asked == prompts(env_file, env, ui)
      val == [n \in PromptNames |-> IF n \in asked THEN answers[n] ELSE <<>>]
  IN [fs |-> [fs EXCEPT ![step_env_path] = add_all(upserts(val), 1, env_file)],
      prompted |-> asked]

\* EnvironmentStep.run(ctx): answers are what the user types at each prompt.
\* [fs, prompted]
environment_run(fs, env, skip_env, non_interactive, ui, answers) ==
  IF skip_env \/ non_interactive THEN [fs |-> fs, prompted |-> {}]
  ELSE
    LET env_file == fs[step_env_path]
        asked == prompts(env_file, env, ui)
        val == [n \in PromptNames |-> IF n \in asked THEN answers[n] ELSE <<>>]
    IN [fs |-> [fs EXCEPT ![step_env_path] = add_all(upserts(val), 1, env_file)],
        prompted |-> asked]

\* -------------------------------------------------------------- env pools
EnvPaths == {".env", ".env.codepro"}
PoolKeys == {"MILVUS_TOKEN", "OPENAI_API_KEY"}
Values == {<<>>, <<"v">>}

\* Lines a file may hold before the first run: a key with a value, with a
\* blank value, with a value of blanks only; a key of the user's own.
PoolLines ==
  {<<"MILVUS_TOKEN", "=">> \o v : v \in Values \cup {<<SP>>}}
  \cup {<<"OTHER", "=", "v">>, <<"#">>}

\* Up to MaxLines lines, no two for the same key, the last one with or
\* without its newline; or no file at all, or an empty one.
InitialEnvFiles ==
  {NoFile, EnvFile(TRUE, << <<>> >>)}
  \cup UNION {{EnvFile(TRUE, ls \o e) :
                 ls \in {l \in [1..n -> PoolLines] :
                          \A i, j \in 1..n : i # j => l[i][1] # l[j][1]},
                 e \in {<<>>, << <<>> >>}}
              : n \in 1..MaxLines}

\* What the user types: a value at the prompts in S, nothing at the others.
Answers ==
  {[n \in PromptNames |-> IF n \in S THEN <<"v">> ELSE <<>>] :
     S \in {{}, PromptNames, {"MILVUS_TOKEN"}, {"OPENAI_API_KEY", "EXA_API_KEY"}}}

NoAnswers == [n \in PromptNames |-> <<>>]

Environs ==
  {[k \in CheckedKeys |-> ""]}
  \cup {[k \in CheckedKeys |-> IF k = "MILVUS_TOKEN" THEN "x" ELSE ""]}

NoEnvFs == [p \in EnvPaths |-> NoFile]
NoEnviron == [k \in CheckedKeys |-> ""]
NoEnvOp ==
  [op |-> "none", key |-> "", value |-> <<>>, path |-> "", ret |-> FALSE,
   prompted |-> {}]

\* ------------------------------------------------ scripts/install.py main
\* The part of a run that writes the library modules, config.yaml, the
\* .cipher directory and .mcp.json, one file-system operation per step.  The
\* repository is a local mirror (--local): every fetch finds its file.
LIB_MODULES == <<"ui.py", "utils.py">>
CipherFiles == <<"cipher.yml", "memory.yml">>

\* A file that open(path, "w") has created or truncated and that has not
\* been written yet: json.load fails on it, yaml.safe_load gives None.
Truncated == [k |-> "bad", fmt |-> "empty", doc |-> EmptyFcn]
YTruncated == [k |-> "null", fmt |-> "empty", doc |-> NoYDoc]

SeqSet(q) == {q[i] : i \in 1..Len(q)}

NoDir == [exists |-> FALSE, files |-> [f \in SeqSet(CipherFiles) |-> "absent"]]
FullDir == [exists |-> TRUE, files |-> [f \in SeqSet(CipherFiles) |-> "full"]]
NoLib == [m \in SeqSet(LIB_MODULES) |-> "absent"]
FullLib == [m \in SeqSet(LIB_MODULES) |-> "full"]

NoRunFs == [lib |-> NoLib, yaml |-> YAbsent, cipher |-> NoDir, mcp |-> Absent]
NoPending == [yaml |-> YAbsent, mcp |-> Absent]
NoRunRepo == [yaml |-> YAbsent, mcp |-> Absent, yamlOk |-> FALSE]
NoRunPc == [pc |-> "idle", idx |-> 1, pending |-> NoPending, runs |-> 0]
NoRunHist ==
  [prior |-> NoRunFs, hasPrev |-> FALSE, rerun |-> FALSE, killedFrom |-> NoRunFs]

RunIdle ==
  /\ runFs = NoRunFs /\ runRepo = NoRunRepo
  /\ runPc = NoRunPc /\ runHist = NoRunHist

\* download_lib_modules, run to its end: the modules missing are fetched.
download_lib_modules(lib) ==
  [m \in DOMAIN lib |-> IF lib[m] = "absent" THEN "full" ELSE lib[m]]

\* install.py lines 337-338, run to their end.
install_cipher(cipher) == IF cipher.exists THEN cipher ELSE FullDir

\* What main() leaves when nothing stops it.
main(fs, repo) ==
  [lib |-> download_lib_modules(fs.lib),
   yaml |-> install_config_yaml(fs.yaml, TRUE, repo.yaml, repo.yamlOk).disk,
   cipher |-> install_cipher(fs.cipher),
   mcp |-> files_merge_mcp_config(fs.mcp, TRUE, repo.mcp).disk]

\* ------------------------------------------------ lib/downloads.py download_file
\* A destination file is absent, holds what it held before ("old"), the
\* bytes of the source ("new"), or what a write that failed left of it
\* ("partial").  A download is configured by cfg:
\*   local   config.local_mode and config.local_repo_dir
\*   source  whether local_repo_dir / repo_path is a file
\*   same    whether the source resolves to the destination
\*   http    how the request ends: status 200, another status, no answer,
\*           or an answer whose body cannot be read to its end ("cut")
\*   io      whether opening and writing the destination works
DlFile(parent, dest) == [parent |-> parent, dest |-> dest]
DlResult(ret, fs) == [ret |-> ret, fs |-> fs]

\* shutil.copy2(source_file, dest_path) / dest_path.write_bytes(data) inside
\* the try block: the destination is opened (truncated), then written.
write_dest(fs, io) ==
  IF io = "open_fails" THEN DlResult(FALSE, fs)
  ELSE IF io = "write_fails" THEN DlResult(FALSE, [fs EXCEPT !.dest = "partial"])
  ELSE DlResult(TRUE, [fs EXCEPT !.dest = "new"])

\* Mutant of remote_fetch: the destination is opened before the answer is
\* known to be good.
remote_fetch_open_first(fs, cfg) ==
  IF cfg.http = "200" THEN write_dest(fs, cfg.io)
  ELSE DlResult(FALSE, [fs EXCEPT !.dest = "partial"])

\* downloads.py lines 67-77: urlopen, the status test, response.read() and
\* only then write_bytes.
remote_fetch(fs, cfg) ==
  IF cfg.http = "200" THEN write_dest(fs, cfg.io)
  ELSE DlResult(FALSE, fs)

\* download_file(repo_path, dest_path, config)
download_file(fs, cfg) ==
  LET made == [fs EXCEPT !.parent = TRUE]
  IN IF cfg.local
     THEN IF cfg.source = "file"
          THEN IF cfg.same THEN DlResult(TRUE, made)
               ELSE write_dest(made, cfg.io)
          ELSE DlResult(FALSE, made)
     ELSE remote_fetch(made, cfg)

\* install.py bootstrap_download: no test for source and destination being
\* the same file; shutil.copy2 then raises SameFileError before it opens it.
bootstrap_download(fs, cfg) ==
  LET made == [fs EXCEPT !.parent = TRUE]
  IN IF cfg.local
     THEN IF cfg.source = "file"
          THEN IF cfg.same THEN DlResult(FALSE, made)
               ELSE write_dest(made, cfg.io)
          ELSE DlResult(FALSE, made)
     ELSE remote_fetch(made, cfg)

DlConfigs ==
  [local : BOOLEAN, source : {"file", "absent"}, same : BOOLEAN,
   http : {"200", "404", "unreachable", "cut"},
   io : {"ok", "open_fails", "write_fails"}]

NoDlConfig ==
  [local |-> FALSE, source |-> "absent", same |-> FALSE, http |-> "200", io |-> "ok"]
NoDlOut == [op |-> "none", cfg |-> NoDlConfig, ret |-> FALSE]

DlIdle == dlFs = DlFile(FALSE, "absent") /\ dlOut = NoDlOut

\* --------------------------------------------------- settings.local.json
\* A settings file is absent, unparsable, or a JSON object laid out as
\* authored ("raw") or by json.dumps(indent=2) ("dump").  Of its content the
\* model keeps where it comes from (tag: "u" the user's, "t" the template's),
\* the PostToolUse hooks and the permissions.allow entries, each by kind:
\*   hooks  "py_sh"    command contains file_checker_python.sh
\*          "py_py"    command contains file_checker_python.py
\*          "other"    any other command
\*   allow  "py_exact" an entry of the Python permission list
\*          "py_sub"   an entry that only contains one of them
\*          "other"    any other permission
StDoc(tag, hooks, allow) == [tag |-> tag, hooks |-> hooks, allow |-> allow]
NoStDoc == StDoc("", <<>>, <<>>)
StAbsent == [k |-> "absent", fmt |-> "none", doc |-> NoStDoc]
StObj(fmt, doc) == [k |-> "obj", fmt |-> fmt, doc |-> doc]
StBad(tag) == [k |-> "bad", fmt |-> "raw", doc |-> StDoc(tag, <<>>, <<>>)]

\* [x for x in seq if keep(x)]
RECURSIVE Filter(_, _)
Filter(seq, drop) ==
  IF seq = <<>> THEN <<>>
  ELSE IF Head(seq) \in drop THEN Filter(Tail(seq), drop)
  ELSE <<Head(seq)>> \o Filter(Tail(seq), drop)

\* str.lower() / str.upper() on the answers a user or the environment gives
AnswerPool == {"y", "YES", "n", ""}
lower(s) == IF s = "YES" THEN "yes" ELSE IF s = "Y" THEN "y" ELSE
           IF s = "N" THEN "n" ELSE s
upper(s) == IF s = "yes" THEN "YES" ELSE IF s = "y" THEN "Y" ELSE
           IF s = "n" THEN "N" ELSE s

\* install_python.lower() in ["y", "yes"]
python_selected(install_python) == lower(install_python) \in {"y", "yes"}

\* template_content.replace("{{PROJECT_DIR}}", str(project_dir)), written
\* as text: the layout and the parse errors of the template are kept.
expand_template(template) ==
  [template EXCEPT !.doc.tag = "t"]

\* install.py lines 250-283: the regeneration policy.
main_generate(fs, non_interactive, regen, overwrite) ==
  IF fs.template.k = "absent" THEN fs
  ELSE IF fs.settings.k # "absent"
  THEN IF non_interactive
       THEN IF upper(overwrite) \in {"Y", "YES"}
            THEN [fs EXCEPT !.settings = expand_template(fs.template)]
            ELSE fs
       ELSE IF lower(regen) \notin {"y", "yes"} THEN fs
            ELSE [fs EXCEPT !.settings = expand_template(fs.template)]
  ELSE [fs EXCEPT !.settings = expand_template(fs.template)]

\* install.py lines 286-325: Python hooks and permissions are removed from
\* whatever settings.local.json now holds.
main_remove_python(fs, install_python) ==
  IF ~python_selected(install_python) /\ fs.settings.k # "absent"
  THEN IF fs.settings.k = "bad" THEN fs
       ELSE [fs EXCEPT !.settings =
               StObj("dump", [fs.settings.doc EXCEPT
                                !.hooks = Filter(@, {"py_sh"}),
                                !.allow = Filter(@, {"py_exact"})])]
  ELSE fs

\* install.py lines 205-325, as far as the two settings files go: the
\* template is downloaded with the other .claude files, then the above.
main_settings(fs, fetched, non_interactive, regen, overwrite, install_python) ==
  LET got == IF fetched THEN [fs EXCEPT !.template = fs.repo] ELSE fs
  IN main_remove_python(main_generate(got, non_interactive, regen, overwrite),
                        install_python)

\* config_files.py remove_python_settings(settings)
remove_python_settings(doc) ==
  [doc EXCEPT !.hooks = Filter(@, {"py_py"}), !.allow = Filter(@, {"py_exact"})]

\* ConfigFilesStep.run lines 78-103
step_settings(fs, install_python, local_mode) ==
  IF fs.template.k = "absent" \/ fs.template.k = "bad" THEN fs
  ELSE LET settings == [fs.template.doc EXCEPT !.tag = "t"]
           kept == IF install_python THEN settings
                   ELSE remove_python_settings(settings)
       IN [fs EXCEPT !.settings = StObj("dump", kept),
                     !.template = IF local_mode THEN @ ELSE StAbsent]

HookSeqs == {<<>>, <<"py_sh", "other">>, <<"other", "py_py">>}
AllowSeqs == {<<>>, <<"py_exact", "other">>, <<"other", "py_sub">>}

\* What the repository publishes as settings.local.template.json, and what
\* a project may hold as settings.local.json before a run.
StTemplates ==
  {StObj("raw", StDoc("t", h, a)) : h \in HookSeqs, a \in AllowSeqs} \cup {StBad("t")}
StInitialSettings ==
  {StObj("raw", StDoc("u", h, a)) : h \in HookSeqs, a \in AllowSeqs}
  \cup {StBad("u"), StAbsent}

NoStFs == [template |-> StAbsent, settings |-> StAbsent, repo |-> StAbsent]
NoStOut ==
  [op |-> "none", fetched |-> FALSE, non_interactive |-> FALSE, regen |-> "",
   overwrite |-> "", python |-> FALSE, local_mode |-> FALSE]
StIdle == stFs = NoStFs /\ stOut = NoStOut

\* ------------------------------------------------------- .claude/rules tree
\* A path is the sequence of its segments.  A file is "absent", the user's
\* own ("user"), installed by an earlier run ("old"), fetched by this run
\* ("new"), merged ("merged") or created empty by touch ("empty").
Categories == <<"core", "extended", "workflow">>
custom_dir(category) == <<".claude", "rules", "custom", category>>
standard_dir(category) == <<".claude", "rules", "standard", category>>

IsPrefix(d, p) == Len(d) < Len(p) /\ SubSeq(p, 1, Len(d)) = d

\* a file somewhere below .claude/rules/custom
UnderCustom(p) == IsPrefix(<<".claude", "rules", "custom">>, p)

\* The test with the wrong directory name.
in_rules_standard(p) ==
  \E i \in 1..(Len(p) - 2) : p[i] = "rules" /\ p[i + 1] = "standard"

\* "rules/custom/" in file_path
in_rules_custom(p) ==
  \E i \in 1..(Len(p) - 2) : p[i] = "rules" /\ p[i + 1] = "custom"

\* "rules/config.yaml" in file_path
is_rules_config(p) ==
  \E i \in 1..(Len(p) - 1) :
     p[i] = "rules" /\ p[i + 1] = "config.yaml" /\ i + 1 = Len(p)

RulePaths ==
  {custom_dir("core") \o <<".gitkeep">>, custom_dir("core") \o <<"mine.md">>,
   standard_dir("core") \o <<"a.md">>, <<".claude", "rules", "config.yaml">>}

\* The tree is taken as it is found.
clean_standard_never(files) == files

\* lines 196-201: every standard directory that exists is emptied
clean_standard(files) ==
  [p \in RulePaths |->
     IF \E i \in 1..Len(Categories) : IsPrefix(standard_dir(Categories[i]), p)
     THEN "absent" ELSE files[p]]

\* lines 209-237, one element of the loop: listed paths are fetched unless
\* skipped; ok is the set of paths whose fetch succeeds.
install_claude_file(files, p, listing, ok) ==
  IF p \notin listing THEN files[p]
  ELSE IF in_rules_custom(p) THEN files[p]
  ELSE IF is_rules_config(p) /\ files[p] # "absent"
       THEN IF p \in ok THEN "merged" ELSE files[p]
  ELSE IF p \in ok THEN "new" ELSE files[p]

\* lines 241-246: a custom directory that does not exist is created with an
\* empty .gitkeep
setup_custom(fs) ==
  [files |-> [p \in RulePaths |->
                IF \E i \in 1..Len(Categories) :
                     /\ Categories[i] \notin fs.cdirs
                     /\ p = custom_dir(Categories[i]) \o <<".gitkeep">>
                THEN "empty" ELSE fs.files[p]],
   cdirs |-> {Categories[i] : i \in 1..Len(Categories)}]

\* download_file creates the parent directory of every path it is given
made_dirs(fs, listing, skipped) ==
  fs.cdirs \cup {Categories[i] : i \in {j \in 1..Len(Categories) :
        \E p \in listing \ skipped : IsPrefix(custom_dir(Categories[j]), p)}}

\* main(), lines 189-246.  A standard directory that exists is removed and
\* made again, one that does not exist is left alone (line 197); later
\* download_file makes the directory of every standard path it is given.
install_claude_files(fs, listing, ok) ==
  LET cleaned == clean_standard(fs.files)
      skipped == {p \in listing : in_rules_custom(p)}
      loaded == [p \in RulePaths |-> install_claude_file(cleaned, p, listing, ok)]
      done == setup_custom([files |-> loaded,
                            cdirs |-> made_dirs(fs, listing, skipped)])
  IN [files |-> done.files, cdirs |-> done.cdirs,
      sdirs |-> fs.sdirs \cup
                {Categories[i] : i \in {j \in 1..Len(Categories) :
                   \E p \in listing : IsPrefix(standard_dir(Categories[j]), p)}}]

\* file_count after the loop of lines 209-237
file_count(listing, ok) == Cardinality({p \in ok : ~in_rules_custom(p)})

\* The trees a project may hold before a run: the user's custom rules, the
\* files of an earlier installation.
InitialRules ==
  {fs \in [files : [RulePaths -> {"absent", "user", "old"}],
           cdirs : SUBSET {Categories[i] : i \in 1..Len(Categories)},
           sdirs : {{}, {"core"}, {Categories[i] : i \in 1..Len(Categories)}}] :
     \A p \in RulePaths :
       /\ \A i \in 1..Len(Categories) :
            IsPrefix(standard_dir(Categories[i]), p) /\ fs.files[p] # "absent"
              => Categories[i] \in fs.sdirs
       /\ UnderCustom(p) => fs.files[p] \in {"absent", "user"}
       /\ ~UnderCustom(p) => fs.files[p] \in {"absent", "old"}
       /\ \A i \in 1..Len(Categories) :
            IsPrefix(custom_dir(Categories[i]), p) /\ fs.files[p] # "absent"
              => Categories[i] \in fs.cdirs}

NoRuFs == [files |-> [p \in RulePaths |-> "absent"], cdirs |-> {}, sdirs |-> {}]
NoRuOut == [op |-> "none", skipped |-> {}, file_count |-> 0]
RuIdle == ruFs = NoRuFs /\ ruOut = NoRuOut

\* ------------------------------------------------ installer/cli.py (steps)
\* The orchestrator of the step-based installer: get_all_steps() returns the
\* steps in their declared order, here 1..MaxSteps; run_installation(ctx)
\* walks them, ctx.mark_completed(name) records a step, and
\* rollback_completed_steps(ctx, steps) undoes the recorded ones.
get_all_steps == [i \in 1..MaxSteps |-> i]

RECURSIVE Reverse(_)
Reverse(seq) ==
  IF seq = <<>> THEN <<>> ELSE Reverse(Tail(seq)) \o <<Head(seq)>>

Range(seq) == {seq[i] : i \in 1..Len(seq)}

\* The record is kept as it is when a run returns.
mark_completed_never(completed, step) == completed

\* ctx.mark_completed(step.name)
mark_completed(completed, step) == Append(completed, step)

\* The completed steps in the order they completed.
rollback_in_completion_order(completed, steps) ==
  SelectSeq(completed, LAMBDA st : st \in Range(steps))

\* rollback_completed_steps(ctx, steps): the steps whose rollback is called,
\* in the order of the calls.
rollback_completed_steps(completed, steps) ==
  Reverse(SelectSeq(completed, LAMBDA st : st \in Range(steps)))

NoChecks == [i \in 1..MaxSteps |-> "none"]
OrStart ==
  [phase |-> "check", pc |-> 1, checks |-> NoChecks, ran |-> <<>>,
   completed |-> <<>>, torun |-> <<>>, rolled |-> <<>>, exit |-> "none"]
OrIdle == orch = OrStart

\* ------------------------------------------- steps/dependencies.py and checks
MAX_RETRIES == 3

\* The installers in the order DependenciesStep.run calls them.
InstallerOrder ==
  <<"nodejs", "uv", "python_tools", "claude_code", "bun", "claude_mem",
    "local_milvus", "qlty", "dotenvx">>

\* The machine: whether a bash executable can be started, the tools already
\* on it (command_exists), the installers whose subprocess exits non-zero
\* every time, and how many times a command that works in the end fails
\* first.  With it the context: ctx.install_python.
DepWorlds ==
  [bash : BOOLEAN,
   have : {h \in SUBSET {InstallerOrder[i] : i \in 1..Len(InstallerOrder)} :
             \/ h \subseteq {"uv", "python_tools"}
             \/ Cardinality(h) <= 1
             \/ Cardinality(h) = Len(InstallerOrder)},
   failing : {f \in SUBSET {InstallerOrder[i] : i \in 1..Len(InstallerOrder)} :
                Cardinality(f) <= MaxFailing},
   flaky : 0..MAX_RETRIES, install_python : BOOLEAN]

\* A pause after every failed attempt, the last one too.
sleeps_after_every(attempt) == TRUE

\* if attempt < MAX_RETRIES - 1: time.sleep(RETRY_DELAY)
sleeps_after(attempt) == attempt < MAX_RETRIES - 1

\* The loop of _run_bash_with_retry from the given attempt (counted from 0)
\* on: [ret, attempts, sleeps].  An attempt cannot start bash, exits
\* non-zero (CalledProcessError) or exits zero.
RECURSIVE bash_attempts(_, _, _, _)
bash_attempts(w, name, attempt, sleeps) ==
  IF attempt >= MAX_RETRIES
  THEN [ret |-> "false", attempts |-> attempt, sleeps |-> sleeps]
  ELSE IF ~w.bash
  THEN [ret |-> "raise", attempts |-> attempt + 1, sleeps |-> sleeps]
  ELSE IF name \in w.failing \/ attempt < w.flaky
  THEN bash_attempts(w, name, attempt + 1,
                     IF sleeps_after(attempt) THEN sleeps + 1 ELSE sleeps)
  ELSE [ret |-> "true", attempts |-> attempt + 1, sleeps |-> sleeps]

\* _run_bash_with_retry(command): "true", "false", or "raise" when
\* subprocess.run cannot start bash (FileNotFoundError is not caught).
run_bash_with_retry(w, name) == bash_attempts(w, name, 0, 0).ret

\* install_python_tools(): uv is started for every missing tool; only
\* CalledProcessError is caught.
install_python_tools(w, uv_now) ==
  IF "python_tools" \in w.have THEN "true"
  ELSE IF ~uv_now THEN "raise"
  ELSE IF "python_tools" \in w.failing THEN "false"
  ELSE "true"

\* install_local_milvus(): the compose file is fetched through bash, the
\* docker subprocess is guarded by except Exception.
install_local_milvus(w) ==
  LET fetched == run_bash_with_retry([w EXCEPT !.failing = {}], "local_milvus")
  IN IF fetched # "true" THEN fetched
     ELSE IF "local_milvus" \in w.failing THEN "false" ELSE "true"

\* An installer that runs its commands whether or not the tool is there.
acts_always(w, name) == TRUE

\* The test every installer starts with (command_exists, the marker path,
\* the running containers): past it the installer runs commands and writes.
acts(w, name) == name \notin w.have

\* One installer, called with the machine as the earlier ones left it.
install(w, name, uv_now) ==
  IF ~acts(w, name) THEN "true"
  ELSE IF name = "python_tools" THEN install_python_tools(w, uv_now)
  ELSE IF name = "local_milvus" THEN install_local_milvus(w)
  ELSE run_bash_with_retry(w, name)

\* if ctx.install_python: guards uv and python_tools
called(w, name) == name \in {"uv", "python_tools"} => w.install_python

\* DependenciesStep.run from the i-th installer on.
RECURSIVE run_from(_, _, _)
run_from(w, i, r) ==
  IF i > Len(InstallerOrder) \/ r.raised THEN r
  ELSE LET name == InstallerOrder[i]
       IN IF ~called(w, name) THEN run_from(w, i + 1, r)
          ELSE LET res == install(w, name, r.uv_now)
               IN run_from(w, i + 1,
                    [attempted |-> Append(r.attempted, name),
                     commands |-> IF acts(w, name) THEN r.commands \cup {name}
                                  ELSE r.commands,
                     installed |-> IF res = "true" THEN Append(r.installed, name)
                                   ELSE r.installed,
                     raised |-> res = "raise",
                     uv_now |-> r.uv_now \/ (name = "uv" /\ res = "true"),
                     qlty_check |-> r.qlty_check \/ (name = "qlty" /\ res = "true")])

\* DependenciesStep.run(ctx): [attempted, installed, commands, raised,
\* qlty_check, assigned]; commands are the installers that ran a command or
\* wrote a file, assigned tells whether ctx.config["installed_dependencies"]
\* was set.
dependencies_run(w) ==
  LET r == run_from(w, 1, [attempted |-> <<>>, installed |-> <<>>,
                           commands |-> {},
                           raised |-> FALSE, uv_now |-> "uv" \in w.have,
                           qlty_check |-> FALSE])
  IN [attempted |-> r.attempted, installed |-> r.installed,
      commands |-> r.commands,
      raised |-> r.raised, qlty_check |-> r.qlty_check,
      assigned |-> ~r.raised]

\* A check that looks at what is installed.
dependencies_check_installed(w) == {"nodejs", "uv", "qlty"} \subseteq w.have

\* DependenciesStep.check(ctx)
dependencies_check(w) == FALSE
\* ConfigFilesStep.check(ctx)
config_files_check(w) == FALSE
\* EnvironmentStep.check(ctx)
environment_check(w) == FALSE

NoDepW ==
  [bash |-> TRUE, have |-> {}, failing |-> {}, flaky |-> 0, install_python |-> TRUE]
NoDepOut ==
  [op |-> "none", attempted |-> <<>>, installed |-> <<>>, commands |-> {},
   raised |-> FALSE, qlty_check |-> FALSE, assigned |-> FALSE,
   checks |-> <<>>, name |-> "", ret |-> "", attempts |-> 0, sleeps |-> 0]
DepIdle == depW = NoDepW /\ depOut = NoDepOut

\* ------------------------------------------ scripts/install.py main by phase
\* main() with the environment setup moved behind the installers.
MainStepsEnvLate ==
  LET S(n, p) == [name |-> n, phase |-> p]
  IN <<S("lib_modules", "lib"), S("check_required", ""), S("devcontainer", ""),
       S("migration", "migration"), S("ask_python", ""),
       S("clean_standard", "files"), S("claude_files", "files"),
       S("custom_dirs", "files"), S("settings", "configs"),
       S("hooks_chmod", ""), S("cipher_dir", "configs"),
       S("qlty_dir", "configs"), S("mcp", "configs"), S("build_sh", "files"),
       S("scripts_chmod", ""), S("nvmrc", "configs"),
       S("installers", "installers"), S("env_setup", "env"),
       S("build_rules", "build"), S("statusline", ""), S("shell_alias", "")>>

\* The statements of main() in program order, each with the phase it
\* belongs to ("" for a statement of no phase: checks, questions, chmod).
MainSteps ==
  <<[name |-> "lib_modules", phase |-> "lib"],
    [name |-> "check_required", phase |-> ""],
    [name |-> "devcontainer", phase |-> ""],
    [name |-> "migration", phase |-> "migration"],
    [name |-> "ask_python", phase |-> ""],
    [name |-> "clean_standard", phase |-> "files"],
    [name |-> "claude_files", phase |-> "files"],
    [name |-> "custom_dirs", phase |-> "files"],
    [name |-> "settings", phase |-> "configs"],
    [name |-> "hooks_chmod", phase |-> ""],
    [name |-> "cipher_dir", phase |-> "configs"],
    [name |-> "qlty_dir", phase |-> "configs"],
    [name |-> "mcp", phase |-> "configs"],
    [name |-> "build_sh", phase |-> "files"],
    [name |-> "scripts_chmod", phase |-> ""],
    [name |-> "nvmrc", phase |-> "configs"],
    [name |-> "env_setup", phase |-> "env"],
    [name |-> "installers", phase |-> "installers"],
    [name |-> "build_rules", phase |-> "build"],
    [name |-> "statusline", phase |-> ""],
    [name |-> "shell_alias", phase |-> ""]>>

\* The condition a statement of main() is under: w tells what the project
\* holds and how the installer was started.
step_runs(w, name) ==
  CASE name = "hooks_chmod" -> w.hooks
    [] name = "cipher_dir" -> ~w.cipher
    [] name = "qlty_dir" -> ~w.qlty
    [] name = "env_setup" -> ~(w.skip_env \/ w.non_interactive)
    [] name = "build_rules" -> w.build_sh
    [] OTHER -> TRUE

MainStart ==
  [pc |-> 1, log |-> <<>>,
   w |-> [hooks |-> FALSE, cipher |-> FALSE, qlty |-> FALSE, skip_env |-> FALSE,
          non_interactive |-> FALSE, build_sh |-> FALSE]]
MainIdle == mainSt = MainStart

\* ------------------------------------------------------------ SpecMcp
InitMcp ==
  /\ mcpDisk \in InitialMcp
  /\ mcpRepo \in Manifests
  /\ mcpOut = NoOp
  /\ yamlDisk = YAbsent /\ yamlRepo = YAbsent /\ yamlOut = NoYamlOp
  /\ envFs = NoEnvFs /\ environ = NoEnviron /\ envOut = NoEnvOp
  /\ RunIdle
  /\ DlIdle
  /\ StIdle
  /\ RuIdle
  /\ OrIdle
  /\ DepIdle
  /\ MainIdle

\* The repository publishes another .mcp.json.
PublishMcp ==
  \E m \in Manifests :
    /\ m # mcpRepo
    /\ mcpRepo' = m
    /\ mcpOut' = [NoOp EXCEPT !.op = "publish"]
    /\ UNCHANGED <<mcpDisk, yamlVars, envVars, runVars, dlVars, stVars, ruVars, orVars, depVars, phVars>>

\* install.py line 346: files.merge_mcp_config(".mcp.json", ...)
FilesMergeMcp ==
  \E fetched \in BOOLEAN :
    LET r == files_merge_mcp_config(mcpDisk, fetched, mcpRepo)
    IN /\ mcpDisk' = r.disk
       /\ mcpOut' = [op |-> "files", fetched |-> fetched,
                     outcome |-> r.outcome, ui |-> FALSE]
       /\ UNCHANGED <<mcpRepo, yamlVars, envVars, runVars, dlVars, stVars, ruVars, orVars, depVars, phVars>>

\* ConfigFilesStep.run, the .mcp.json part
StepMergeMcp ==
  \E fetched \in BOOLEAN, ui \in BOOLEAN :
    LET r == step_mcp(mcpDisk, fetched, mcpRepo, ui)
    IN /\ mcpDisk' = r.disk
       /\ mcpOut' = [op |-> "step", fetched |-> fetched,
                     outcome |-> r.outcome, ui |-> ui]
       /\ UNCHANGED <<mcpRepo, yamlVars, envVars, runVars, dlVars, stVars, ruVars, orVars, depVars, phVars>>

NextMcp == PublishMcp \/ FilesMergeMcp \/ StepMergeMcp

SpecMcp == InitMcp /\ [][NextMcp]_vars

\* ----------------------------------------------------------- SpecYaml
InitYaml ==
  /\ yamlDisk \in InitialYamls
  /\ yamlRepo \in RepoYamls
  /\ yamlOut = NoYamlOp
  /\ mcpDisk = Absent /\ mcpRepo = Absent /\ mcpOut = NoOp
  /\ envFs = NoEnvFs /\ environ = NoEnviron /\ envOut = NoEnvOp
  /\ RunIdle
  /\ DlIdle
  /\ StIdle
  /\ RuIdle
  /\ OrIdle
  /\ DepIdle
  /\ MainIdle

\* The repository publishes another config.yaml.
PublishYaml ==
  \E y \in RepoYamls :
    /\ y # yamlRepo
    /\ yamlRepo' = y
    /\ yamlOut' = [NoYamlOp EXCEPT !.op = "publish"]
    /\ UNCHANGED <<yamlDisk, mcpVars, envVars, runVars, dlVars, stVars, ruVars, orVars, depVars, phVars>>

\* install.py lines 225-237
InstallConfigYaml ==
  \E fetched \in BOOLEAN, yamlOk \in BOOLEAN :
    LET r == install_config_yaml(yamlDisk, fetched, yamlRepo, yamlOk)
    IN /\ yamlDisk' = r.disk
       /\ yamlOut' = [op |-> "install", fetched |-> fetched, yaml |-> yamlOk,
                      outcome |-> r.outcome]
       /\ UNCHANGED <<yamlRepo, mcpVars, envVars, runVars, dlVars, stVars, ruVars, orVars, depVars, phVars>>

NextYaml == PublishYaml \/ InstallConfigYaml

SpecYaml == InitYaml /\ [][NextYaml]_vars

\* ------------------------------------------------------------ SpecEnv
InitEnv ==
  /\ envFs \in {[p \in EnvPaths |-> IF p = step_env_path THEN f ELSE NoFile] :
                  f \in InitialEnvFiles}
  /\ environ \in Environs
  /\ envOut = NoEnvOp
  /\ mcpDisk = Absent /\ mcpRepo = Absent /\ mcpOut = NoOp
  /\ yamlDisk = YAbsent /\ yamlRepo = YAbsent /\ yamlOut = NoYamlOp
  /\ RunIdle
  /\ DlIdle
  /\ StIdle
  /\ RuIdle
  /\ OrIdle
  /\ DepIdle
  /\ MainIdle

\* key_is_set(key, env_file)
KeyIsSet ==
  \E key \in PoolKeys, path \in {step_env_path} :
    /\ envOut' = [NoEnvOp EXCEPT !.op = "key_is_set", !.key = key, !.path = path,
                                 !.ret = key_is_set(key, envFs[path], environ)]
    /\ UNCHANGED <<envFs, environ, mcpVars, yamlVars, runVars, dlVars, stVars, ruVars, orVars, depVars, phVars>>

\* add_env_key(key, value, env_file)
AddEnvKey ==
  \E key \in PoolKeys, value \in Values, path \in {step_env_path} :
    /\ envFs' = [envFs EXCEPT ![path] = add_env_key(key, value, envFs[path])]
    /\ envOut' = [NoEnvOp EXCEPT !.op = "add_env_key", !.key = key,
                                 !.value = value, !.path = path]
    /\ UNCHANGED <<environ, mcpVars, yamlVars, runVars, dlVars, stVars, ruVars, orVars, depVars, phVars>>

\* EnvironmentStep.run(ctx)
EnvironmentRun ==
  \E skip_env \in BOOLEAN, non_interactive \in BOOLEAN, ui \in BOOLEAN :
  \E answers \in (IF ui /\ ~skip_env /\ ~non_interactive THEN Answers
                  ELSE {NoAnswers}) :
    LET r == environment_run(envFs, environ, skip_env, non_interactive, ui, answers)
    IN /\ envFs' = r.fs
       /\ envOut' = [NoEnvOp EXCEPT !.op = "run", !.path = step_env_path,
                                    !.ret = skip_env \/ non_interactive,
                                    !.prompted = r.prompted]
       /\ UNCHANGED <<environ, mcpVars, yamlVars, runVars, dlVars, stVars, ruVars, orVars, depVars, phVars>>

\* The two helpers on their own, from every initial file.
NextEnv == KeyIsSet \/ AddEnvKey

SpecEnv == InitEnv /\ [][NextEnv]_vars

\* The step run and re-run, from every initial file.
NextEnvRun == EnvironmentRun

SpecEnvRun == InitEnv /\ [][NextEnvRun]_vars

\* ------------------------------------------------------------ SpecRun
\* What the mirror serves, and what the project holds before the first run.
RunRepoYamls ==
  {YMap("raw", YDoc(TRUE, [c \in {"plan"} |-> cmd], "t1")) :
     cmd \in {CmdMap(TRUE, "s1", FALSE, <<>>, "o1"),
              CmdMap(TRUE, "s1", TRUE, <<0>>, "o1")}}

RunInitialYamls ==
  {YAbsent,
   YMap("raw", YDoc(TRUE, [c \in {"plan"} |-> CmdMap(TRUE, "s2", TRUE, <<1>>, "o2")],
                    "t2"))}

RunRepoMcps ==
  {Obj("raw", [x \in {"mcpServers"} |-> ValMap([n \in 1..k |-> "d1"])]) :
     k \in {1, MaxNames}}

RunInitialMcps ==
  {Absent, Obj("raw", [x \in {"mcpServers"} |-> ValMap([n \in {1} |-> "d2"])])}

InitRun ==
  /\ runRepo \in [yaml : RunRepoYamls, mcp : RunRepoMcps, yamlOk : BOOLEAN]
  /\ runFs \in [lib : {NoLib, FullLib}, yaml : RunInitialYamls,
                cipher : {NoDir, FullDir}, mcp : RunInitialMcps]
  /\ runPc = NoRunPc
  /\ runHist = NoRunHist
  /\ mcpDisk = Absent /\ mcpRepo = Absent /\ mcpOut = NoOp
  /\ yamlDisk = YAbsent /\ yamlRepo = YAbsent /\ yamlOut = NoYamlOp
  /\ envFs = NoEnvFs /\ environ = NoEnviron /\ envOut = NoEnvOp
  /\ DlIdle
  /\ StIdle
  /\ RuIdle
  /\ OrIdle
  /\ DepIdle
  /\ MainIdle

Goto(pc) == [runPc EXCEPT !.pc = pc, !.idx = 1, !.pending = NoPending]

\* The operator starts install.py: for the first time, after a run that
\* ended, or after one that was terminated.
Start ==
  /\ runPc.pc \in {"idle", "done", "killed"}
  /\ runPc.runs < MaxRuns
  /\ runPc' = [Goto("lib") EXCEPT !.runs = @ + 1]
  /\ runHist' = [prior |-> runFs,
                 hasPrev |-> runPc.pc = "done",
                 rerun |-> runPc.pc = "killed",
                 killedFrom |-> IF runPc.pc = "killed" THEN runHist.prior
                                ELSE NoRunFs]
  /\ UNCHANGED <<runFs, runRepo, mcpVars, yamlVars, envVars, dlVars, stVars, ruVars, orVars, depVars, phVars>>

\* The process is terminated between two file-system operations.
Kill ==
  /\ runPc.pc \notin {"idle", "done", "killed"}
  /\ runPc' = Goto("killed")
  /\ UNCHANGED <<runFs, runRepo, runHist, mcpVars, yamlVars, envVars, dlVars, stVars, ruVars, orVars, depVars, phVars>>

\* download_lib_modules, lines 82-90: the next module is skipped when its
\* file exists, else opened for writing.
LibNext ==
  /\ runPc.pc = "lib"
  /\ IF runPc.idx > Len(LIB_MODULES)
     THEN runPc' = Goto("yaml") /\ runFs' = runFs
     ELSE LET m == LIB_MODULES[runPc.idx]
          IN IF runFs.lib[m] # "absent"
             THEN runPc' = [runPc EXCEPT !.idx = @ + 1] /\ runFs' = runFs
             ELSE /\ runFs' = [runFs EXCEPT !.lib[m] = "empty"]
                  /\ runPc' = [runPc EXCEPT !.pc = "lib_write"]
  /\ UNCHANGED <<runRepo, runHist, mcpVars, yamlVars, envVars, dlVars, stVars, ruVars, orVars, depVars, phVars>>

\* bootstrap_download writes the module's bytes.
LibWrite ==
  /\ runPc.pc = "lib_write"
  /\ runFs' = [runFs EXCEPT !.lib[LIB_MODULES[runPc.idx]] = "full"]
  /\ runPc' = [runPc EXCEPT !.pc = "lib", !.idx = @ + 1]
  /\ UNCHANGED <<runRepo, runHist, mcpVars, yamlVars, envVars, dlVars, stVars, ruVars, orVars, depVars, phVars>>

\* install.py lines 225-237: config.yaml is merged (or copied) when it
\* exists and downloaded when it does not; either way the destination is
\* opened for writing first.
YamlOpen ==
  /\ runPc.pc = "yaml"
  /\ LET r == install_config_yaml(runFs.yaml, TRUE, runRepo.yaml, runRepo.yamlOk)
     IN IF r.outcome \in {"created", "merged", "copied"}
        THEN /\ runFs' = [runFs EXCEPT !.yaml = YTruncated]
             /\ runPc' = [runPc EXCEPT !.pc = "yaml_write", !.pending.yaml = r.disk]
        ELSE runFs' = runFs /\ runPc' = Goto("cipher")
  /\ UNCHANGED <<runRepo, runHist, mcpVars, yamlVars, envVars, dlVars, stVars, ruVars, orVars, depVars, phVars>>

\* yaml.dump, shutil.copy2 or download_file writes the content.
YamlWrite ==
  /\ runPc.pc = "yaml_write"
  /\ runFs' = [runFs EXCEPT !.yaml = runPc.pending.yaml]
  /\ runPc' = Goto("cipher")
  /\ UNCHANGED <<runRepo, runHist, mcpVars, yamlVars, envVars, dlVars, stVars, ruVars, orVars, depVars, phVars>>

\* install.py lines 337-338: .cipher is installed only when it does not
\* exist; download_file creates the directory for the first file.
CipherBegin ==
  /\ runPc.pc = "cipher"
  /\ IF runFs.cipher.exists
     THEN runFs' = runFs /\ runPc' = Goto("mcp")
     ELSE /\ runFs' = [runFs EXCEPT !.cipher.exists = TRUE]
          /\ runPc' = Goto("cipher_open")
  /\ UNCHANGED <<runRepo, runHist, mcpVars, yamlVars, envVars, dlVars, stVars, ruVars, orVars, depVars, phVars>>

\* download_file opens the next file of the directory for writing.
CipherOpen ==
  /\ runPc.pc = "cipher_open"
  /\ runFs' = [runFs EXCEPT !.cipher.files[CipherFiles[runPc.idx]] = "empty"]
  /\ runPc' = [runPc EXCEPT !.pc = "cipher_write"]
  /\ UNCHANGED <<runRepo, runHist, mcpVars, yamlVars, envVars, dlVars, stVars, ruVars, orVars, depVars, phVars>>

\* download_file writes the file's bytes.
CipherWrite ==
  /\ runPc.pc = "cipher_write"
  /\ runFs' = [runFs EXCEPT !.cipher.files[CipherFiles[runPc.idx]] = "full"]
  /\ runPc' = IF runPc.idx < Len(CipherFiles)
              THEN [runPc EXCEPT !.pc = "cipher_open", !.idx = @ + 1]
              ELSE Goto("mcp")
  /\ UNCHANGED <<runRepo, runHist, mcpVars, yamlVars, envVars, dlVars, stVars, ruVars, orVars, depVars, phVars>>

\* install.py line 346: files.merge_mcp_config copies or merges, opening
\* the destination for writing, or fails and leaves it.
McpOpen ==
  /\ runPc.pc = "mcp"
  /\ LET r == files_merge_mcp_config(runFs.mcp, TRUE, runRepo.mcp)
     IN IF r.outcome \in {"created", "merged"}
        THEN /\ runFs' = [runFs EXCEPT !.mcp = Truncated]
             /\ runPc' = [runPc EXCEPT !.pc = "mcp_write", !.pending.mcp = r.disk]
        ELSE runFs' = runFs /\ runPc' = Goto("done")
  /\ UNCHANGED <<runRepo, runHist, mcpVars, yamlVars, envVars, dlVars, stVars, ruVars, orVars, depVars, phVars>>

\* json.dump or shutil.copy2 writes the content; the run ends.
McpWrite ==
  /\ runPc.pc = "mcp_write"
  /\ runFs' = [runFs EXCEPT !.mcp = runPc.pending.mcp]
  /\ runPc' = Goto("done")
  /\ UNCHANGED <<runRepo, runHist, mcpVars, yamlVars, envVars, dlVars, stVars, ruVars, orVars, depVars, phVars>>

NextRun ==
  \/ Start \/ Kill \/ LibNext \/ LibWrite \/ YamlOpen \/ YamlWrite
  \/ CipherBegin \/ CipherOpen \/ CipherWrite \/ McpOpen \/ McpWrite

SpecRun == InitRun /\ [][NextRun]_vars

\* ------------------------------------------------------ claims on SpecMcp
IsMerge(o) == o.op \in {"files", "step"}

\* The server collections a file holds: key -> name -> definition.
Collections(c) ==
  IF c.k # "obj" THEN EmptyFcn
  ELSE [key \in {x \in DOMAIN c.doc \cap {"mcpServers", "servers"} :
                   c.doc[x].t = "map"} |-> c.doc[key].m]

\* C2: once a server name is in the on-disk .mcp.json, no step of either
\* merge changes or removes its definition; merges only add unseen names.
C2_ExistingServersKept ==
  [][\A key \in DOMAIN Collections(mcpDisk) :
       \A n \in DOMAIN Collections(mcpDisk)[key] :
          /\ key \in DOMAIN Collections(mcpDisk')
          /\ n \in DOMAIN Collections(mcpDisk')[key]
          /\ Collections(mcpDisk')[key][n] = Collections(mcpDisk)[key][n]]_vars

\* A merge met a name collision with differing definitions and kept the
\* on-disk one, while the manifest is still the one it fetched.
C2_Witness ==
  /\ IsMerge(mcpOut) /\ mcpOut.outcome = "merged"
  /\ mcpRepo.k = "obj" /\ "mcpServers" \in DOMAIN Collections(mcpRepo)
  /\ "mcpServers" \in DOMAIN Collections(mcpDisk)
  /\ \E n \in DOMAIN Collections(mcpRepo)["mcpServers"] :
        /\ n \in DOMAIN Collections(mcpDisk)["mcpServers"]
        /\ Collections(mcpDisk)["mcpServers"][n]
             # Collections(mcpRepo)["mcpServers"][n]

C6_ParseFailureFailsSoft ==
  [][(/\ IsMerge(mcpOut') /\ mcpOut'.fetched
      /\ mcpDisk.k # "absent"
      /\ (mcpDisk.k = "bad" \/ mcpRepo.k = "bad"))
     => (mcpDisk' = mcpDisk /\ mcpOut'.outcome # "raised")]_vars

\* ----------------------------------------------------- claims on SpecYaml
HasCustom(cmd) == cmd.t = "map" /\ cmd.hasRules /\ cmd.hasCustom

HasCommands(c) == c.k = "map" /\ c.doc.hasCommands

\* C4: every command of the existing config.yaml that has custom rules has
\* the same rules.custom sequence under the same command after
\* merge_yaml_config, whatever the fetched config holds, also when the
\* fetched config lacks the command or has no commands mapping.  (Stated for
\* the case in which PyYAML is available, the one most favourable to the
\* claim.)
C4_CustomKeptForEveryCommand ==
  [][(/\ yamlOut'.op = "install" /\ yamlOut'.fetched /\ yamlOut'.yaml
      /\ HasCommands(yamlDisk))
     => \A c \in DOMAIN yamlDisk.doc.commands :
          (/\ HasCustom(yamlDisk.doc.commands[c])
           /\ yamlDisk.doc.commands[c].custom # <<>>)
          => /\ HasCommands(yamlDisk')
             /\ c \in DOMAIN yamlDisk'.doc.commands
             /\ HasCustom(yamlDisk'.doc.commands[c])
             /\ yamlDisk'.doc.commands[c].custom
                  = yamlDisk.doc.commands[c].custom]_vars

\* The commands two parsed configs share; none of them is null.
SharedCommands(a, b) == (DOMAIN a.doc.commands) \cap (DOMAIN b.doc.commands)

WellFormedPair(existing, new) ==
  /\ HasCommands(existing) /\ HasCommands(new)
  /\ \A c \in SharedCommands(existing, new) :
        existing.doc.commands[c].t = "map" /\ new.doc.commands[c].t = "map"

\* What C5 says of the written config, given the existing and the fetched one.
C5_Result(existing, new, written) ==
  /\ HasCommands(written)
  /\ written.doc.top = new.doc.top
  /\ DOMAIN written.doc.commands = DOMAIN new.doc.commands
  /\ \A c \in DOMAIN new.doc.commands :
        LET w == written.doc.commands[c]
            n == new.doc.commands[c]
        IN IF c \in DOMAIN existing.doc.commands
           THEN LET e == existing.doc.commands[c]
                IN /\ w.t = "map" /\ w.hasRules /\ w.hasCustom
                   /\ w.custom = (IF HasCustom(e) THEN e.custom ELSE <<>>)
                   /\ w.std = n.std /\ w.other = n.other
           ELSE w = n

\* C5 (as amended): when PyYAML is available and both configs are mappings
\* with well-formed commands, merge_yaml_config writes the fetched config
\* with, for each shared command, rules.custom replaced by the existing one.
C5_MergedWhenYamlAvailable ==
  [][(/\ yamlOut'.op = "install" /\ yamlOut'.fetched /\ yamlOut'.yaml
      /\ WellFormedPair(yamlDisk, yamlRepo))
     => /\ yamlOut'.outcome = "merged"
        /\ C5_Result(yamlDisk, yamlRepo, yamlDisk')]_vars

\* A merge replaced the fetched command's custom rules by the user's and
\* kept the fetched standard rules.
C5_Witness ==
  /\ yamlOut.op = "install" /\ yamlOut.outcome = "merged"
  /\ HasCommands(yamlDisk) /\ HasCommands(yamlRepo)
  /\ \E c \in SharedCommands(yamlDisk, yamlRepo) :
        /\ HasCustom(yamlRepo.doc.commands[c])
        /\ HasCustom(yamlDisk.doc.commands[c])
        /\ Len(yamlDisk.doc.commands[c].custom) = MaxCustom
        /\ yamlDisk.doc.commands[c].custom # yamlRepo.doc.commands[c].custom
        /\ yamlDisk.doc.commands[c].std = yamlRepo.doc.commands[c].std

\* C5 (as claimed): whenever merge_yaml_config returns True for two
\* well-formed configs, the written config is the merged one.
C5_MergedAlways ==
  [][(/\ yamlOut'.op = "install" /\ yamlOut'.fetched
      /\ yamlOut'.outcome \in {"merged", "copied"}
      /\ WellFormedPair(yamlDisk, yamlRepo))
     => C5_Result(yamlDisk, yamlRepo, yamlDisk')]_vars

\* ------------------------------------------------------ claims on SpecEnv
\* A line key=value of the file whose value is not blank.
HasValuedLine(key, env_file) ==
  /\ env_file.exists
  /\ \E i \in 1..Len(env_file.pieces) :
        LET l == strip(env_file.pieces[i])
        IN startswith_key(l, key) /\ strip(SubSeq(l, 3, Len(l))) # <<>>

\* The number of lines of the file that are for the key.
LinesFor(key, env_file) ==
  IF env_file.exists
  THEN Cardinality({i \in 1..Len(env_file.pieces) :
                      startswith_key(strip(env_file.pieces[i]), key)})
  ELSE 0

\* C9: key_is_set(key, file) is true if and only if the environment variable
\* key is non-empty or the file has a line key=value whose value is non-empty
\* after trimming; a key with a blank value in the file and absent from the
\* environment counts as missing.
C9_KeyIsSetIffValued ==
  envOut.op = "key_is_set" =>
    (envOut.ret <=> (environ[envOut.key] # ""
                     \/ HasValuedLine(envOut.key, envFs[envOut.path])))

\* C10: for any starting file, key and value, calling add_env_key(key, value,
\* file) twice in succession yields a file with exactly one line for the key,
\* and the second call leaves the file byte-identical to the result of the
\* first.
C10_SecondAddChangesNothing ==
  [][(/\ envOut.op = "add_env_key" /\ envOut'.op = "add_env_key"
      /\ envOut'.key = envOut.key /\ envOut'.value = envOut.value
      /\ envOut'.path = envOut.path)
     => (/\ envFs' = envFs
         /\ LinesFor(envOut.key, envFs'[envOut.path]) = 1)]_vars

\* ------------------------------------------------------ claims on SpecRun
\* What the files of the project directory parse to, whatever their layout.
Parsed(fs) ==
  [lib |-> fs.lib, cipher |-> fs.cipher,
   yaml |-> [k |-> fs.yaml.k, doc |-> fs.yaml.doc],
   mcp |-> [k |-> fs.mcp.k, doc |-> fs.mcp.doc]]

\* C1: with the upstream unchanged and no user edit in between, a second
\* complete run leaves every destination file with the content it had after
\* the first.  (Stated on what the files parse to, which equal bytes imply.)
C1_SecondRunChangesNothing ==
  (runPc.pc = "done" /\ runHist.hasPrev) => Parsed(runFs) = Parsed(runHist.prior)

\* C7: at every point of a run, also when it is terminated between two
\* file-system operations, config.yaml and .mcp.json each hold their complete
\* content of before the run or their complete new content, never an empty
\* or partly written one.
C7_WritesAreAllOrNothing ==
  runPc.pc # "idle" =>
    LET new == main(runHist.prior, runRepo)
    IN /\ runFs.yaml \in {runHist.prior.yaml, new.yaml}
       /\ runFs.mcp \in {runHist.prior.mcp, new.mcp}

\* C8: when a run was terminated and the installer is then run again to its
\* end against the same upstream, the destination is what one uninterrupted
\* run from the terminated run's starting state leaves; a partly installed
\* .cipher directory and partly downloaded library modules are completed.
C8_RerunRepairs ==
  (runPc.pc = "done" /\ runHist.rerun) => runFs = main(runHist.killedFrom, runRepo)

\* -------------------------------------------------------------- SpecDl
InitDl ==
  /\ dlFs \in {DlFile(FALSE, "absent"), DlFile(TRUE, "absent"), DlFile(TRUE, "old")}
  /\ dlOut = NoDlOut
  /\ mcpDisk = Absent /\ mcpRepo = Absent /\ mcpOut = NoOp
  /\ yamlDisk = YAbsent /\ yamlRepo = YAbsent /\ yamlOut = NoYamlOp
  /\ envFs = NoEnvFs /\ environ = NoEnviron /\ envOut = NoEnvOp
  /\ RunIdle
  /\ StIdle
  /\ RuIdle
  /\ OrIdle
  /\ DepIdle
  /\ MainIdle

\* The source can be the destination only when both exist.
DlPossible(fs, cfg) ==
  cfg.same => (cfg.local /\ cfg.source = "file" /\ fs.dest # "absent")

\* downloads.download_file(repo_path, dest_path, config)
DownloadFile ==
  \E cfg \in DlConfigs :
    /\ DlPossible(dlFs, cfg)
    /\ LET r == download_file(dlFs, cfg)
       IN /\ dlFs' = r.fs
          /\ dlOut' = [op |-> "download_file", cfg |-> cfg, ret |-> r.ret]
    /\ UNCHANGED <<mcpVars, yamlVars, envVars, runVars, stVars, ruVars, orVars, depVars, phVars>>

\* install.py bootstrap_download(repo_path, dest_path, local_mode, local_repo_dir)
BootstrapDownload ==
  \E cfg \in DlConfigs :
    /\ DlPossible(dlFs, cfg)
    /\ LET r == bootstrap_download(dlFs, cfg)
       IN /\ dlFs' = r.fs
          /\ dlOut' = [op |-> "bootstrap_download", cfg |-> cfg, ret |-> r.ret]
    /\ UNCHANGED <<mcpVars, yamlVars, envVars, runVars, stVars, ruVars, orVars, depVars, phVars>>

NextDl == DownloadFile \/ BootstrapDownload

SpecDl == InitDl /\ [][NextDl]_vars

\* ------------------------------------------------------- claims on SpecDl
\* The fetch fails: no source file in local mode; in remote mode a status
\* other than 200 or a network error, before or while the body is read.
FetchFails(cfg) ==
  IF cfg.local THEN cfg.source = "absent"
  ELSE cfg.http \in {"404", "unreachable", "cut"}

\* C11: on any fetch failure download_file (and bootstrap_download) returns
\* False and neither creates, truncates nor alters the destination file.
C11_FetchFailureLeavesDest ==
  [][(dlOut'.op \in {"download_file", "bootstrap_download"} /\ FetchFails(dlOut'.cfg))
     => (~dlOut'.ret /\ dlFs'.dest = dlFs.dest)]_vars

\* A remote download answered 404 over a destination that held content,
\* and one whose source file was missing, each left it as it was.
C11_Witness ==
  /\ dlOut.op = "download_file" /\ ~dlOut.ret
  /\ dlFs.dest = "old"
  /\ \/ ~dlOut.cfg.local /\ dlOut.cfg.http = "404"
     \/ dlOut.cfg.local /\ dlOut.cfg.source = "absent"


\* ------------------------------------------------------------ SpecSettings
\* The two programs that write .claude/settings.local.json, run any number
\* of times on a project: main() of install.py and ConfigFilesStep.run.
InitSettings ==
  /\ \E repo \in StTemplates, settings \in StInitialSettings,
        template \in {StAbsent, StObj("raw", StDoc("t", <<>>, <<>>))} :
       stFs = [template |-> template, settings |-> settings, repo |-> repo]
  /\ stOut = NoStOut
  /\ mcpDisk = Absent /\ mcpRepo = Absent /\ mcpOut = NoOp
  /\ yamlDisk = YAbsent /\ yamlRepo = YAbsent /\ yamlOut = NoYamlOp
  /\ envFs = NoEnvFs /\ environ = NoEnviron /\ envOut = NoEnvOp
  /\ RunIdle
  /\ DlIdle
  /\ RuIdle
  /\ OrIdle
  /\ DepIdle
  /\ MainIdle

\* One run of main(), lines 205-325, on the settings files.
MainSettings ==
  \E fetched, non_interactive \in BOOLEAN, install_python \in {"Y", "yes", "n"} :
  \E regen \in IF non_interactive THEN {""} ELSE AnswerPool :
  \E overwrite \in IF non_interactive THEN AnswerPool \cup {"N"} ELSE {"N"} :
    /\ stFs' = main_settings(stFs, fetched, non_interactive, regen, overwrite,
                             install_python)
    /\ stOut' = [op |-> "main", fetched |-> fetched,
                 non_interactive |-> non_interactive, regen |-> regen,
                 overwrite |-> overwrite,
                 python |-> python_selected(install_python),
                 local_mode |-> FALSE]
    /\ UNCHANGED <<mcpVars, yamlVars, envVars, runVars, dlVars, ruVars, orVars, depVars, phVars>>

\* One run of ConfigFilesStep.run on the settings files.
StepSettings ==
  \E install_python, local_mode \in BOOLEAN :
    /\ stFs' = step_settings(stFs, install_python, local_mode)
    /\ stOut' = [NoStOut EXCEPT !.op = "step", !.python = install_python,
                                !.local_mode = local_mode]
    /\ UNCHANGED <<mcpVars, yamlVars, envVars, runVars, dlVars, ruVars, orVars, depVars, phVars>>

NextSettings == MainSettings \/ StepSettings
SpecSettings == InitSettings /\ [][NextSettings]_vars

\* The run of main() that just ended was told to regenerate the settings.
Confirmed ==
  IF stOut'.non_interactive THEN upper(stOut'.overwrite) \in {"Y", "YES"}
  ELSE lower(stOut'.regen) \in {"y", "yes"}

\* The settings file as a reader of it sees it: its parsed content.
StParsed(f) == [k |-> f.k, doc |-> f.doc]

\* C12: a run of main() leaves the content of an existing settings.local.json
\* as it was unless regeneration was confirmed (y/yes at the prompt, or
\* OVERWRITE_SETTINGS Y/YES without a terminal), and generates it from the
\* template when it was absent and the template is there.
C12_SettingsKeptUnlessConfirmed ==
  [][stOut'.op = "main" =>
       /\ (stFs.settings.k # "absent" /\ ~Confirmed =>
             StParsed(stFs'.settings) = StParsed(stFs.settings))
       /\ (stFs.settings.k = "absent" /\ stFs'.template.k # "absent" =>
             stFs'.settings.k # "absent" /\ stFs'.settings.doc.tag = "t")]_vars


\* --------------------------------------------------------------- SpecRules
\* main(), lines 189-246, run any number of times on a project, against any
\* upstream listing and with any fetch failing.
InitRules ==
  /\ ruFs \in InitialRules
  /\ ruOut = NoRuOut
  /\ mcpDisk = Absent /\ mcpRepo = Absent /\ mcpOut = NoOp
  /\ yamlDisk = YAbsent /\ yamlRepo = YAbsent /\ yamlOut = NoYamlOp
  /\ envFs = NoEnvFs /\ environ = NoEnviron /\ envOut = NoEnvOp
  /\ RunIdle
  /\ DlIdle
  /\ StIdle
  /\ OrIdle
  /\ DepIdle
  /\ MainIdle

InstallClaudeFiles ==
  \E listing \in SUBSET RulePaths :
  \E ok \in SUBSET listing :
    /\ ruFs' = install_claude_files(ruFs, listing, ok)
    /\ ruOut' = [op |-> "main",
                 skipped |-> {p \in listing : in_rules_custom(p)},
                 file_count |-> file_count(listing, ok)]
    /\ UNCHANGED <<mcpVars, yamlVars, envVars, runVars, dlVars, stVars, orVars, depVars, phVars>>

NextRules == InstallClaudeFiles
SpecRules == InitRules /\ [][NextRules]_vars

\* C13: a run of main() leaves every file under .claude/rules/custom/ that
\* existed before the run as it was, whatever upstream lists and whichever
\* fetches fail.
C13_CustomFilesUntouched ==
  [][ruOut'.op = "main" =>
       \A p \in RulePaths :
          UnderCustom(p) /\ ruFs.files[p] # "absent"
            => ruFs'.files[p] = ruFs.files[p]]_vars

\* Upstream lists a custom rule the user also has, and the same run fetches
\* a standard rule and merges config.yaml.
C13_Witness ==
  /\ ruOut.op = "main"
  /\ \E p \in ruOut.skipped : UnderCustom(p) /\ ruFs.files[p] = "user"
  /\ \E p \in RulePaths : ruFs.files[p] = "new"
  /\ \E p \in RulePaths : ruFs.files[p] = "merged"


\* C14: EnvironmentStep.run keeps the API keys in <project_dir>/.env.codepro:
\* a run never creates or changes <project_dir>/.env.
C14_DotEnvNeverWritten ==
  [][envOut'.op = "run" => envFs'[".env"] = envFs[".env"]]_vars


\* C15: a run with ctx.skip_env or ctx.non_interactive set asks nothing and
\* leaves every file as it was.
C15_SkippedRunDoesNothing ==
  [][envOut'.op = "run" /\ envOut'.ret =>
       envFs' = envFs /\ envOut'.prompted = {}]_vars

\* A skipped run on a project whose key file is missing or lacks keys, where
\* a run that is not skipped would have written.
C15_Witness ==
  /\ envOut.op = "run" /\ envOut.ret
  /\ \E a \in Answers :
       environment_run(envFs, environ, FALSE, FALSE, TRUE, a).fs # envFs


\* ---------------------------------------------------------------- SpecOrch
\* run_installation(ctx), one call of a step method at a time.
InitOrch ==
  /\ orch = OrStart
  /\ mcpDisk = Absent /\ mcpRepo = Absent /\ mcpOut = NoOp
  /\ yamlDisk = YAbsent /\ yamlRepo = YAbsent /\ yamlOut = NoYamlOp
  /\ envFs = NoEnvFs /\ environ = NoEnviron /\ envOut = NoEnvOp
  /\ RunIdle
  /\ DlIdle
  /\ StIdle
  /\ RuIdle
  /\ DepIdle
  /\ MainIdle

OrFrame == UNCHANGED <<mcpVars, yamlVars, envVars, runVars, dlVars, stVars, ruVars, depVars, phVars>>

\* step.check(ctx) returns True: the step is skipped.
StepSkipped ==
  /\ orch.phase = "check" /\ orch.pc <= MaxSteps
  /\ orch' = [orch EXCEPT !.checks[orch.pc] = "skip", !.pc = @ + 1]
  /\ OrFrame

\* step.check(ctx) returns False: step.run(ctx) is called.
StepRunCalled ==
  /\ orch.phase = "check" /\ orch.pc <= MaxSteps
  /\ orch' = [orch EXCEPT !.checks[orch.pc] = "run", !.phase = "running",
                          !.ran = Append(@, get_all_steps[orch.pc])]
  /\ OrFrame

\* step.run(ctx) returns: the step is marked completed.
StepRunReturns ==
  /\ orch.phase = "running"
  /\ orch' = [orch EXCEPT
                !.completed = mark_completed(@, get_all_steps[orch.pc]),
                !.phase = "check", !.pc = @ + 1]
  /\ OrFrame

\* step.run(ctx) fails for good: rollback_completed_steps is entered.
StepRunFails ==
  /\ orch.phase = "running"
  /\ orch' = [orch EXCEPT
                !.phase = "rollback",
                !.torun = rollback_completed_steps(orch.completed, get_all_steps)]
  /\ OrFrame

\* The next rollback of rollback_completed_steps.
StepRollback ==
  /\ orch.phase = "rollback" /\ orch.torun # <<>>
  /\ orch' = [orch EXCEPT !.rolled = Append(@, Head(orch.torun)),
                          !.torun = Tail(@)]
  /\ OrFrame

\* The process ends: status 1 after the rollbacks, 0 after the last step.
OrchExit ==
  /\ \/ orch.phase = "rollback" /\ orch.torun = <<>>
     \/ orch.phase = "check" /\ orch.pc > MaxSteps
  /\ orch' = [orch EXCEPT !.exit = IF orch.phase = "rollback" THEN "1" ELSE "0",
                          !.phase = "exited"]
  /\ OrFrame

NextOrch ==
  \/ StepSkipped \/ StepRunCalled \/ StepRunReturns \/ StepRunFails
  \/ StepRollback \/ OrchExit
SpecOrch == InitOrch /\ [][NextOrch]_vars

\* C16: run is called exactly once on each step whose check returned False
\* and on no other, in the declared order; a run starts only when every
\* earlier run has returned, and a step is marked completed only after its
\* run returned.
C16_RunOncePerUnskippedStepInOrder ==
  /\ \A i, j \in 1..Len(orch.ran) : i < j => orch.ran[i] < orch.ran[j]
  /\ \A i \in 1..MaxSteps :
       (orch.checks[i] = "run") <=> (get_all_steps[i] \in Range(orch.ran))
  /\ \A i \in 1..(Len(orch.ran) - 1) : orch.ran[i] \in Range(orch.completed)
  /\ orch.phase = "running" => get_all_steps[orch.pc] \notin Range(orch.completed)
  /\ Range(orch.completed) \subseteq Range(orch.ran)
  /\ orch.exit = "0" =>
       /\ orch.completed = orch.ran
       /\ \A i \in 1..MaxSteps : orch.checks[i] # "none"

\* A finished run in which a step was skipped and two steps ran.
C16_Witness ==
  /\ orch.exit = "0"
  /\ Len(orch.ran) >= 2
  /\ \E i \in 1..MaxSteps : orch.checks[i] = "skip"

\* C17: when a run fails for good, rollback is called exactly once on each
\* step completed earlier in this run and on no other, last completed
\* first, and the process then ends with a non-zero status.
C17_RollbackReverseCompletionOrder ==
  /\ orch.phase = "rollback" =>
       orch.rolled \o orch.torun = Reverse(orch.completed)
  /\ orch.exit = "1" => orch.rolled = Reverse(orch.completed)
  /\ orch.exit = "0" => orch.rolled = <<>>
  /\ orch.phase = "exited" /\ Len(orch.ran) > Len(orch.completed)
       => orch.exit = "1"

\* Two steps completed, the third failed, and both were rolled back.
C17_Witness ==
  /\ orch.exit = "1"
  /\ Len(orch.completed) >= 2
  /\ Len(orch.rolled) = Len(orch.completed)


\* ---------------------------------------------------------------- SpecDeps
\* DependenciesStep on every machine and context: its run, and the checks
\* of the three steps before and after it.
InitDeps ==
  /\ depW \in DepWorlds
  /\ depOut = NoDepOut
  /\ orch = OrStart
  /\ mcpDisk = Absent /\ mcpRepo = Absent /\ mcpOut = NoOp
  /\ yamlDisk = YAbsent /\ yamlRepo = YAbsent /\ yamlOut = NoYamlOp
  /\ envFs = NoEnvFs /\ environ = NoEnviron /\ envOut = NoEnvOp
  /\ RunIdle
  /\ DlIdle
  /\ StIdle
  /\ RuIdle
  /\ MainIdle

DepFrame ==
  UNCHANGED <<mcpVars, yamlVars, envVars, runVars, dlVars, stVars, ruVars, orVars, phVars>>

\* step.run(ctx); what it installed is on the machine afterwards.
DependenciesRun ==
  LET r == dependencies_run(depW)
  IN /\ depOut' = [NoDepOut EXCEPT !.op = "run", !.attempted = r.attempted,
                                   !.installed = r.installed,
                                   !.commands = r.commands,
                                   !.raised = r.raised,
                                   !.qlty_check = r.qlty_check,
                                   !.assigned = r.assigned]
     /\ depW' = [depW EXCEPT
                   !.have = @ \cup Range(r.installed)]
     /\ DepFrame

\* step.check(ctx) of the three steps.
StepChecks ==
  /\ depOut' = [NoDepOut EXCEPT !.op = "check",
                  !.checks = <<dependencies_check(depW),
                               config_files_check(depW),
                               environment_check(depW)>>]
  /\ UNCHANGED depW
  /\ DepFrame

\* _run_bash_with_retry(command) on its own.
RunBashWithRetry ==
  \E name \in {"nodejs", "dotenvx"} :
    LET r == bash_attempts(depW, name, 0, 0)
    IN /\ depOut' = [NoDepOut EXCEPT !.op = "bash", !.name = name,
                                     !.ret = r.ret, !.attempts = r.attempts,
                                     !.sleeps = r.sleeps]
       /\ UNCHANGED depW
       /\ DepFrame

NextDeps == DependenciesRun \/ StepChecks \/ RunBashWithRetry
SpecDeps == InitDeps /\ [][NextDeps]_vars

C19_RunAlwaysAssigns ==
  depOut.op = "run" => ~depOut.raised /\ depOut.assigned

\* The installers a run is to attempt, in order.
Expected(w) == SelectSeq(InstallerOrder, LAMBDA n : called(w, n))

\* C20: on a machine with bash, a run attempts every installer whatever
\* failed before (uv and the Python tools exactly when ctx.install_python),
\* runs the qlty check exactly when install_qlty succeeded, and leaves in
\* installed_dependencies the installers that succeeded, in the fixed order.
C20_EveryInstallerAttempted ==
  [][depOut'.op = "run" /\ depW.bash =>
       /\ depOut'.attempted = Expected(depW)
       /\ depOut'.assigned
       /\ depOut'.installed =
            SelectSeq(Expected(depW),
                      LAMBDA n : install(depW, n, "uv" \in depW'.have) = "true")
       /\ depOut'.qlty_check <=> ("qlty" \in Range(depOut'.installed))]_vars


\* C21: an installer whose tool is already there returns True without
\* running a command or writing a file.
C21_PresentToolNotReinstalled ==
  [][depOut'.op = "run" =>
       \A n \in Range(depOut'.attempted) :
          n \in depW.have =>
            n \in Range(depOut'.installed) /\ n \notin depOut'.commands]_vars

\* A second run on a machine where the first one installed everything.
C21_Witness ==
  /\ depOut.op = "run"
  /\ Len(depOut.attempted) = Len(InstallerOrder)
  /\ depOut.installed = depOut.attempted
  /\ depOut.commands = {}

\* C26: _run_bash_with_retry makes at most MAX_RETRIES attempts, returns
\* True at the first attempt that exits zero, returns False after
\* MAX_RETRIES attempts that exited non-zero, and pauses between two
\* attempts only, never after the last one.
C26_BoundedRetry ==
  depOut.op = "bash" =>
    /\ depOut.attempts \in 1..MAX_RETRIES
    /\ depW.bash =>
         /\ depOut.ret \in {"true", "false"}
         /\ depOut.sleeps = depOut.attempts - 1
         /\ depOut.name \notin depW.failing /\ depW.flaky < MAX_RETRIES
              => depOut.ret = "true" /\ depOut.attempts = depW.flaky + 1
         /\ depOut.name \in depW.failing \/ depW.flaky >= MAX_RETRIES
              => depOut.ret = "false" /\ depOut.attempts = MAX_RETRIES

\* A command that exits non-zero twice and zero the third time; one that
\* never exits zero is covered by the formula as well.
C26_Witness ==
  /\ depOut.op = "bash" /\ depW.bash
  /\ depOut.ret = "true" /\ depOut.attempts = MAX_RETRIES /\ depOut.sleeps = 2


\* ---------------------------------------------------------------- SpecMain
\* One run of main(), statement by statement, on every project and with
\* every way of starting it.
InitMain ==
  /\ \E w \in [hooks : BOOLEAN, cipher : BOOLEAN, qlty : BOOLEAN,
               skip_env : BOOLEAN,
               non_interactive : BOOLEAN, build_sh : BOOLEAN] :
       mainSt = [MainStart EXCEPT !.w = w]
  /\ depW = NoDepW /\ depOut = NoDepOut
  /\ orch = OrStart
  /\ mcpDisk = Absent /\ mcpRepo = Absent /\ mcpOut = NoOp
  /\ yamlDisk = YAbsent /\ yamlRepo = YAbsent /\ yamlOut = NoYamlOp
  /\ envFs = NoEnvFs /\ environ = NoEnviron /\ envOut = NoEnvOp
  /\ RunIdle
  /\ DlIdle
  /\ StIdle
  /\ RuIdle

\* The next statement is executed, or passed over when its condition fails.
MainStep ==
  /\ mainSt.pc <= Len(MainSteps)
  /\ mainSt' =
       [mainSt EXCEPT
          !.pc = @ + 1,
          !.log = IF step_runs(mainSt.w, MainSteps[mainSt.pc].name)
                  THEN Append(@, MainSteps[mainSt.pc].name) ELSE @]
  /\ UNCHANGED <<mcpVars, yamlVars, envVars, runVars, dlVars, stVars, ruVars, orVars, depVars>>

\* sys.exit(1) after check_required_dependencies, the exit taken when the
\* user chooses the dev container, or an exception: the run ends here.
MainExit ==
  /\ mainSt.pc <= Len(MainSteps)
  /\ mainSt.pc > 1
  /\ mainSt' = [mainSt EXCEPT !.pc = Len(MainSteps) + 1]
  /\ UNCHANGED <<mcpVars, yamlVars, envVars, runVars, dlVars, stVars, ruVars, orVars, depVars>>

NextMain == MainStep \/ MainExit
SpecMain == InitMain /\ [][NextMain]_vars

\* The phases in the order claimed, and the place of a statement in it.
Phases ==
  <<"lib", "migration", "files", "configs", "env", "installers", "build">>
PhaseOf(name) ==
  MainSteps[CHOOSE i \in 1..Len(MainSteps) : MainSteps[i].name = name].phase
Rank(name) ==
  IF PhaseOf(name) = "" THEN 0
  ELSE CHOOSE r \in 1..Len(Phases) : Phases[r] = PhaseOf(name)

\* C22 as stated: nothing of a phase is executed once a later phase has
\* started.
C22_PhasesNeverInterleave ==
  \A i, j \in 1..Len(mainSt.log) :
     i < j /\ Rank(mainSt.log[i]) > 0 /\ Rank(mainSt.log[j]) > 0
       => Rank(mainSt.log[i]) <= Rank(mainSt.log[j])

\* C22 amended: nothing of a phase is executed once a later phase has
\* started, except that .claude/rules/build.sh is installed during the
\* reconciliation of the configs, after the MCP manifests are merged and
\* before the environment setup.
C22_PhasesStartInOrder ==
  \A i, j \in 1..Len(mainSt.log) :
     i < j /\ Rank(mainSt.log[i]) > 0 /\ Rank(mainSt.log[j]) > 0
       => \/ Rank(mainSt.log[i]) <= Rank(mainSt.log[j])
          \/ /\ mainSt.log[j] = "build_sh"
             /\ PhaseOf(mainSt.log[i]) = "configs"

\* A run that went through every phase, the environment setup included.
C22_Witness ==
  /\ mainSt.pc > Len(MainSteps)
  /\ \A r \in 1..Len(Phases) :
       \E i \in 1..Len(mainSt.log) : PhaseOf(mainSt.log[i]) = Phases[r]


\* A manifest whose server collections, where present, are mappings.
ServersAreMaps(c) ==
  c.k = "obj" /\ \A x \in DOMAIN c.doc \cap {"mcpServers", "servers"} : c.doc[x].t = "map"

\* C23: when the destination is absent or does not parse, a merge of a
\* fetched manifest that is a well-formed JSON object leaves the destination a JSON
\* object holding every top-level key of the fetched manifest with the
\* fetched value (the least that "written verbatim" requires).
C23_AbsentOrUnparsableReplaced ==
  [][(/\ IsMerge(mcpOut') /\ mcpOut'.fetched
      /\ mcpDisk.k \in {"absent", "bad"}
      /\ ServersAreMaps(mcpRepo))
     => /\ mcpDisk'.k = "obj"
        /\ \A x \in DOMAIN mcpRepo.doc :
             x \in DOMAIN mcpDisk'.doc /\ mcpDisk'.doc[x] = mcpRepo.doc[x]]_vars

\* C24: a merge of two JSON objects whose server collections are mappings
\* writes the fetched document overlaid with the existing one: existing
\* top-level keys other than the server collections keep their value, keys
\* only in the fetched manifest are added with the fetched value, and no
\* existing server is lost or changed.
C24_FetchedOverlaidWithExisting ==
  [][(/\ IsMerge(mcpOut') /\ mcpOut'.fetched
      /\ ServersAreMaps(mcpDisk) /\ ServersAreMaps(mcpRepo))
     => /\ mcpDisk'.k = "obj"
        /\ \A x \in DOMAIN mcpDisk.doc :
             /\ x \in DOMAIN mcpDisk'.doc
             /\ x \notin {"mcpServers", "servers"} => mcpDisk'.doc[x] = mcpDisk.doc[x]
        /\ \A x \in DOMAIN mcpRepo.doc \ DOMAIN mcpDisk.doc :
             /\ x \in DOMAIN mcpDisk'.doc
             /\ x \notin {"mcpServers", "servers"} => mcpDisk'.doc[x] = mcpRepo.doc[x]
        /\ \A x \in DOMAIN Collections(mcpDisk) :
             \A n \in DOMAIN Collections(mcpDisk)[x] :
                /\ n \in DOMAIN Collections(mcpDisk')[x]
                /\ Collections(mcpDisk')[x][n] = Collections(mcpDisk)[x][n]]_vars

\* C28: on the same existing file and the same fetched manifest, both
\* well-formed JSON objects, every top-level key that files.merge_mcp_config writes is
\* written with the same value by config_files.merge_mcp_config.
C28_BothMergesAgree ==
  [][(/\ mcpOut'.op = "files" /\ mcpOut'.fetched
      /\ ServersAreMaps(mcpDisk) /\ ServersAreMaps(mcpRepo))
     => LET other == config_files_merge_mcp_config(mcpDisk, mcpRepo)
        IN  /\ ~other.raised
            /\ other.disk.k = "obj"
            /\ \A x \in DOMAIN mcpDisk'.doc :
                 x \in DOMAIN other.disk.doc /\ other.disk.doc[x] = mcpDisk'.doc[x]]_vars


\* C25: add_env_key(key, value, file) leaves the file as it was exactly when
\* the file already has a line for the key with a non-blank value; otherwise
\* the file exists afterwards, has the line key=value, and every line it had
\* before is still there, in place.
C25_AddUnlessValued ==
  [][envOut'.op = "add_env_key" =>
       LET before == envFs[envOut'.path]
           after == envFs'[envOut'.path]
           valued == HasValuedLine(envOut'.key, before)
       IN /\ (after = before) <=> valued
          /\ ~valued =>
               /\ after.exists
               /\ \E i \in 1..Len(after.pieces) :
                     after.pieces[i] = <<envOut'.key, "=">> \o envOut'.value
               /\ \A i \in 1..(Len(before.pieces) - 1) :
                     after.pieces[i] = before.pieces[i]]_vars


\* The elements of a sequence.
Elems(seq) == {seq[i] : i \in 1..Len(seq)}

\* C27: after a run with Python not selected, a settings.local.json that
\* parses holds no PostToolUse hook naming the Python file checker the
\* program filters on, and no permissions.allow entry that is, or contains,
\* an entry of the Python permission list.
C27_PythonFilteredOut ==
  [][(/\ stOut'.op \in {"main", "step"} /\ ~stOut'.python
      /\ stFs'.settings.k = "obj")
     => /\ (IF stOut'.op = "main" THEN "py_sh" ELSE "py_py")
              \notin Elems(stFs'.settings.doc.hooks)
        /\ Elems(stFs'.settings.doc.allow) \cap {"py_exact", "py_sub"} = {}]_vars


\* ------------------------------------------------------------ SpecRollback
\* The three steps of the installer package run and rolled back on a project
\* holding settings, a template, a .mcp.json and a key file.
rollback_keeps_settings(fs) == fs

\* ConfigFilesStep.rollback: settings_file.unlink() if it exists.
config_files_rollback(fs) == [fs EXCEPT !.settings = StAbsent]

InitRollback ==
  /\ \E repo \in StTemplates,
        settings \in {StAbsent,
                      StObj("raw", StDoc("u", <<"other">>, <<"other">>))},
        here \in BOOLEAN :
       stFs = [template |-> IF here THEN repo ELSE StAbsent,
               settings |-> settings, repo |-> repo]
  /\ stOut = NoStOut
  /\ mcpDisk \in {Absent, Obj("raw", [x \in {"mcpServers"} |-> ValMap([n \in {1} |-> "d2"])])}
  /\ mcpRepo = Obj("raw", [x \in {"mcpServers"} |-> ValMap([n \in {1, 2} |-> "d1"])])
  /\ mcpOut = NoOp
  /\ envFs \in {NoEnvFs,
                [NoEnvFs EXCEPT ![step_env_path] =
                   EnvFile(TRUE, << <<"OTHER", "=", "v">>, <<>> >>)]}
  /\ environ = NoEnviron /\ envOut = NoEnvOp
  /\ yamlDisk = YAbsent /\ yamlRepo = YAbsent /\ yamlOut = NoYamlOp
  /\ RunIdle
  /\ DlIdle
  /\ RuIdle
  /\ OrIdle
  /\ DepIdle
  /\ MainIdle

\* ConfigFilesStep.run: the settings file, then the .mcp.json merge.
ConfigFilesRun ==
  \E install_python, local_mode, fetched, ui \in BOOLEAN :
    LET r == step_mcp(mcpDisk, fetched, mcpRepo, ui)
    IN /\ stFs' = step_settings(stFs, install_python, local_mode)
       /\ stOut' = [NoStOut EXCEPT !.op = "step", !.python = install_python,
                                   !.local_mode = local_mode]
       /\ mcpDisk' = r.disk
       /\ mcpOut' = [op |-> "step", fetched |-> fetched,
                     outcome |-> r.outcome, ui |-> ui]
       /\ UNCHANGED <<mcpRepo, yamlVars, envVars, runVars, dlVars, ruVars, orVars, depVars, phVars>>

\* ConfigFilesStep.rollback(ctx)
ConfigFilesRollback ==
  /\ stFs' = config_files_rollback(stFs)
  /\ stOut' = [stOut EXCEPT !.op = "rollback"]
  /\ UNCHANGED <<mcpVars, yamlVars, envVars, runVars, dlVars, ruVars, orVars, depVars, phVars>>

\* EnvironmentStep.rollback(ctx): pass
EnvironmentRollback ==
  /\ envOut' = [NoEnvOp EXCEPT !.op = "rollback"]
  /\ UNCHANGED <<envFs, environ, mcpVars, yamlVars, runVars, dlVars, stVars, ruVars, orVars, depVars, phVars>>

\* DependenciesStep.rollback(ctx): pass
DependenciesRollback ==
  /\ depOut' = [NoDepOut EXCEPT !.op = "rollback"]
  /\ UNCHANGED <<depW, mcpVars, yamlVars, envVars, runVars, dlVars, stVars, ruVars, orVars, phVars>>

NextRollback ==
  \/ ConfigFilesRun
  \/ ConfigFilesRollback
  \/ EnvironmentRollback
  \/ DependenciesRollback

SpecRollback == InitRollback /\ [][NextRollback]_vars

StandardPaths ==
  {p \in RulePaths :
     \E i \in 1..Len(Categories) : IsPrefix(standard_dir(Categories[i]), p)}
StandardCategories == {Categories[i] : i \in 1..Len(Categories)}

\* C29 as stated: after a run of main() that fetched no file, the three
\* standard directories exist and hold no rule file of an earlier run.
C29_CleanedDirsExist ==
  [][ruOut'.op = "main" /\ ruOut'.file_count = 0 =>
       /\ StandardCategories \subseteq ruFs'.sdirs
       /\ \A p \in StandardPaths : ruFs'.files[p] = "absent"]_vars

\* C29 as the code has it: no run of main() leaves a standard rule file of
\* an earlier run, and after a run that fetched no file the standard
\* directories hold no file at all and those that existed still exist.
C29_CleanedBeforeListing ==
  [][ruOut'.op = "main" =>
       /\ \A p \in StandardPaths : ruFs'.files[p] # "old"
       /\ ruOut'.file_count = 0 =>
            /\ \A p \in StandardPaths : ruFs'.files[p] = "absent"
            /\ ruFs.sdirs \subseteq ruFs'.sdirs]_vars

\* A run on an earlier installation fetched nothing: config.yaml of that
\* installation is still there, the standard directory is empty.
C29_Witness ==
  /\ ruOut.op = "main" /\ ruOut.file_count = 0
  /\ ruFs.files[<<".claude", "rules", "config.yaml">>] = "old"
  /\ "core" \in ruFs.sdirs
  /\ \A p \in StandardPaths : ruFs.files[p] = "absent"
====
